---- MODULE Spec2Model ----
(***************************************************************************)
(* A model of unwind/disasm.py: the marshal value deserializer             *)
(* (_Disassembler.unmarshal_node), the instruction-decoding loop of a code *)
(* object and the stack reconstruction engine (_CommandHandler).           *)
(*                                                                         *)
(* The code is Python 2 (dict.iteritems, old-style classes); Python        *)
(* integers are unbounded, so the integers that can leave the 31-bit range *)
(* (the argument accumulator, bignums) are modelled as bit sequences,      *)
(* least significant bit first, with no trailing zero.                     *)
(***************************************************************************)
EXTENDS Integers, Sequences, FiniteSets, TLC

VARIABLES
    pc,            \* where the top-level call is: "start", "node", "loop", "done", "failed"
    error,         \* the exception that escaped the call, "none" while there is none
    magic,         \* _Disassembler.magic
    string_table,  \* _Disassembler.string_table
    pending,       \* open unmarshal_collection calls: the elements each still has to decode
    node,          \* the value the last completed unmarshal_node call returned
    co,            \* the code object whose bytecode is being decoded (its tables, len(co_code))
    co_code,       \* the bytes of co.co_code read so far
    i,             \* the loop's read position
    argument,      \* the loop's argument accumulator (bits)
    opcodes,       \* co.opcodes
    stack,         \* handler.stack
    result,        \* handler.result
    indent_count,  \* handler.indent_count
    printed,       \* what handle and print_result have written to standard output
    input,         \* the family the bytes of the input are drawn from
    nodes,         \* history: the tags and values of the unmarshal_node calls that returned
    last           \* history: the last loop step (what was read and handled)

vars == <<pc, error, magic, string_table, pending, node, co, co_code, i, argument,
          opcodes, stack, result, indent_count, printed, input, nodes, last>>

-----------------------------------------------------------------------------
(* Bounds of the model.                                                    *)

MaxCode == 15
MaxNodes == 3
MaxDepth == 2

-----------------------------------------------------------------------------
(* Sequences and Python's slices.                                          *)

Min(a, b) == IF a < b THEN a ELSE b
Max(a, b) == IF a > b THEN a ELSE b

\* l[a:b] of Python for a list of length Len(l): negative indices count from
\* the end, and both ends are clamped into 0..Len(l).
PyIndex(k, n) == IF k < 0 THEN Max(k + n, 0) ELSE Min(k, n)
PySlice(l, a, b) == SubSeq(l, PyIndex(a, Len(l)) + 1, PyIndex(b, Len(l)))

Reverse(l) == [k \in 1..Len(l) |-> l[Len(l) + 1 - k]]

RECURSIVE Join(_, _)
\* sep.join(l) for a list of strings
Join(l, sep) ==
    IF Len(l) = 0 THEN ""
    ELSE IF Len(l) = 1 THEN l[1]
    ELSE l[1] \o sep \o Join(Tail(l), sep)

-----------------------------------------------------------------------------
(* Unbounded non-negative integers as bit sequences.                       *)

RECURSIVE NatToBits(_)
NatToBits(n) == IF n = 0 THEN <<>> ELSE <<n % 2>> \o NatToBits(n \div 2)

RECURSIVE BitsToNat(_)
\* defined while the value is below 2^31
BitsToNat(b) == IF Len(b) = 0 THEN 0 ELSE b[1] + 2 * BitsToNat(Tail(b))

RECURSIVE Trim(_)
Trim(b) ==
    IF Len(b) = 0 THEN b
    ELSE IF b[Len(b)] = 0 THEN Trim(SubSeq(b, 1, Len(b) - 1))
    ELSE b

Zeros(k) == [j \in 1..k |-> 0]

\* a << k
ShiftLeft(b, k) == IF Len(b) = 0 THEN b ELSE Zeros(k) \o b

\* a | b
BitOr(a, b) ==
    Trim([j \in 1..Max(Len(a), Len(b)) |->
            IF (j <= Len(a) /\ a[j] = 1) \/ (j <= Len(b) /\ b[j] = 1) THEN 1 ELSE 0])

\* a >= n for a small natural n
BitsGe(a, n) == Len(a) > 30 \/ BitsToNat(a) >= n

\* the value as a natural, capped: every use below (a count of pops, a slice
\* bound) behaves alike for all values above the lengths of the model
BigCap == 2^30
BitsCapped(a) == IF Len(a) > 30 THEN BigCap ELSE BitsToNat(a)

\* a & 0xff and (a >> 8) & 0xff
LowByte(a) == BitsToNat(SubSeq(a, 1, Min(8, Len(a))))
SecondByte(a) == IF Len(a) <= 8 THEN 0 ELSE BitsToNat(SubSeq(a, 9, Min(16, Len(a))))

-----------------------------------------------------------------------------
(* Python values: what unmarshal_node returns and what the tables of a     *)
(* code object hold.                                                       *)

NoneV == [t |-> "none"]
IntV(n) == [t |-> "int", n |-> n]
StrV(s) == [t |-> "str", s |-> s]
\* a CodeObject, with the fields the engine reads
CodeV(name, argcount, varnames) ==
    [t |-> "code", co_name |-> name, co_argcount |-> argcount, co_varnames |-> varnames]

\* repr(v)
PyRepr(v) ==
    CASE v.t = "none" -> "None"
      [] v.t = "int" -> ToString(v.n)
      [] v.t = "str" -> "'" \o v.s \o "'"
      [] v.t = "code" -> "CodeObject(" \o v.co_name \o ")"

\* "{}".format(v), str(v)
PyStr(v) == IF v.t = "str" THEN v.s ELSE PyRepr(v)

-----------------------------------------------------------------------------
(* What the operand stack holds.                                           *)

\* _PyObject(val, print_raw, skip_it)
PyObject(val, print_raw, skip_it) ==
    [cls |-> "_PyObject", val |-> val, print_raw |-> print_raw, skip_it |-> skip_it]

\* _MathOperation(val1, val2, operation)
MathOperation(val1, val2, operation) ==
    [cls |-> "_MathOperation", val1 |-> val1, val2 |-> val2, operation |-> operation]

\* a Python str, list, tuple or set pushed as it is
NativeStr(s) == [cls |-> "str", s |-> s]
NativeList(items) == [cls |-> "list", items |-> items]
NativeTuple(items) == [cls |-> "tuple", items |-> items]
NativeSet(items) == [cls |-> "set", items |-> items]

\* a Python dict: its (key, value) pairs in the order iteration yields them
NativeDict(items) == [cls |-> "dict", items |-> items]

RECURSIVE ObjRepr(_)
RECURSIVE ObjStr(_)

\* o.__repr__()
ObjRepr(o) ==
    CASE o.cls = "_PyObject" ->
            IF o.print_raw = 1 THEN PyStr(o.val) ELSE PyRepr(o.val)
      [] o.cls = "_FuncCall" -> o.val
      [] o.cls = "_MathOperation" ->
            "(" \o ObjStr(o.val1) \o " " \o o.operation \o " " \o ObjStr(o.val2) \o ")"
      [] o.cls = "str" -> "'" \o o.s \o "'"
      [] o.cls = "list" ->
            "[" \o Join([k \in 1..Len(o.items) |-> ObjRepr(o.items[k])], ", ") \o "]"
      [] o.cls = "tuple" ->
            "(" \o Join([k \in 1..Len(o.items) |-> ObjRepr(o.items[k])], ", ")
                \o (IF Len(o.items) = 1 THEN "," ELSE "") \o ")"
      [] o.cls = "set" ->
            "set([" \o Join([k \in 1..Len(o.items) |-> ObjRepr(o.items[k])], ", ") \o "])"
      [] o.cls = "dict" ->
            "{" \o Join([k \in 1..Len(o.items) |->
                           ObjRepr(o.items[k][1]) \o ": " \o ObjRepr(o.items[k][2])], ", ")
                \o "}"

\* "{}".format(o), str(o): a class without __str__ prints its __repr__
ObjStr(o) == IF o.cls = "str" THEN o.s ELSE ObjRepr(o)

\* bool(o): an empty str, list, tuple, set or dict is false, an instance of
\* a class without __nonzero__ and __len__ true
ObjTruthy(o) ==
    CASE o.cls = "str" -> o.s # ""
      [] o.cls \in {"list", "tuple", "set", "dict"} -> Len(o.items) > 0
      [] OTHER -> TRUE

RECURSIVE ValueKeyed(_)
\* o is hashed and compared by its value, not by its identity as the
\* instances of the classes of this module are
ValueKeyed(o) ==
    CASE o.cls = "str" -> TRUE
      [] o.cls = "tuple" -> \A k \in 1..Len(o.items) : ValueKeyed(o.items[k])
      [] OTHER -> FALSE

\* d[key] = val on the pairs of a dict: a key the dict has keeps its place;
\* where iteration yields a new key depends on its hash, for an instance on
\* its address, and slot stands for that place
Keyed(items, key, val, slot) ==
    IF ValueKeyed(key) /\ \E k \in 1..Len(items) : items[k][1] = key
    THEN [k \in 1..Len(items) |-> IF items[k][1] = key THEN <<key, val>> ELSE items[k]]
    ELSE LET at == Min(slot, Len(items))
         IN SubSeq(items, 1, at) \o <<<<key, val>>>> \o SubSeq(items, at + 1, Len(items))

RECURSIVE DictOf(_, _)
\* the dict that pairs, inserted one after the other, make
DictOf(pairs, slot) ==
    IF Len(pairs) = 0 THEN <<>>
    ELSE Keyed(DictOf(SubSeq(pairs, 1, Len(pairs) - 1), slot),
               pairs[Len(pairs)][1], pairs[Len(pairs)][2], slot)

\* the places a new key takes in the model: before the keys the dict has,
\* or after the first of them (every order, for a dict of two keys)
Slots == {0, 1}

\* k.val of a key of kargs whose val is a str
KeyVal(k) == IF k.cls = "_PyObject" THEN k.val.s ELSE k.val

\* _FuncCall(func_name, pargs, kargs, pargs_ext, kargs_ext): kargs is the list
\* of (key, value) pairs in the order kargs.iteritems() yields them, and an
\* absent pargs_ext or kargs_ext is <<>>, a present one <<operand>>; if
\* pargs_ext, if kargs_ext test the operand, not its presence
FuncCall(func_name, pargs, kargs, pargs_ext, kargs_ext) ==
    LET all_args ==
            [k \in 1..Len(pargs) |-> ObjRepr(pargs[k])]
            \o (IF Len(pargs_ext) = 1 /\ ObjTruthy(pargs_ext[1])
                THEN <<"*" \o ObjRepr(pargs_ext[1])>> ELSE <<>>)
            \o [k \in 1..Len(kargs) |-> KeyVal(kargs[k][1]) \o "=" \o ObjStr(kargs[k][2])]
            \o (IF Len(kargs_ext) = 1 /\ ObjTruthy(kargs_ext[1])
                THEN <<"**" \o ObjRepr(kargs_ext[1])>> ELSE <<>>)
    IN [cls |-> "_FuncCall", func_name |-> func_name,
        val |-> func_name \o "(" \o Join(all_args, ", ") \o ")"]

\* _INDENT, INDENT_SIZE
INDENT == "    "

RECURSIVE Times(_, _)
\* n * s: the empty string for n <= 0
Times(n, s) == IF n <= 0 THEN "" ELSE s \o Times(n - 1, s)

\* _Assigment(name, val).__repr__(), built with indent = 0
Assigment(name, val) == Times(0, INDENT) \o name \o " = " \o ObjStr(val)

-----------------------------------------------------------------------------
(* The stack reconstruction engine, _CommandHandler.  A handler is the     *)
(* record h of its fields stack, result and indent_count, with exc the     *)
(* exception the call under way has raised ("none" while it has not).      *)

\* _CommandHandler.__init__
NewHandler == [stack |-> <<>>, result |-> <<>>, indent_count |-> 0, exc |-> "none"]

Raise(h, e) == [h EXCEPT !.exc = e]

\* indent()
Indent(h) == Times(h.indent_count, INDENT)

\* push(val)
Push(h, val) == [h EXCEPT !.stack = Append(h.stack, val)]

\* top()
Top(h) == h.stack[Len(h.stack)]

\* what n calls of pop() return, first popped first; they need Len(h.stack) >= n
Popped(h, n) == [k \in 1..n |-> h.stack[Len(h.stack) + 1 - k]]

\* the handler after n calls of pop(): the call that finds the list empty
\* raises IndexError, the ones before it have popped
Drop(h, n) ==
    IF n <= Len(h.stack)
    THEN [h EXCEPT !.stack = SubSeq(h.stack, 1, Len(h.stack) - n)]
    ELSE [h EXCEPT !.stack = <<>>, !.exc = "IndexError"]

\* pop_n_rev(n)
pop_n_rev(h, n) == Reverse(Popped(h, n))

\* rotate(n, l)
rotate(n, l) == PySlice(l, n, Len(l)) \o PySlice(l, 0, n)

\* result.append(indent() + text)
Emit(h, text) == [h EXCEPT !.result = Append(h.result, Indent(h) \o text)]

\* if arg:
Truthy(arg) ==
    CASE arg.t = "none" -> FALSE
      [] arg.t = "int" -> arg.n # 0
      [] arg.t = "raw" -> Len(arg.bits) > 0
      [] arg.t = "str" -> arg.s # ""
      [] OTHER -> TRUE

\* a raw integer argument, and its text
RawV(bits) == [t |-> "raw", bits |-> bits]
ArgStr(arg) == IF arg.t = "raw" THEN ToString(BitsCapped(arg.bits)) ELSE PyStr(arg)

\* hasattr(o, "val"), hasattr(o, "skip_it")
HasVal(o) == o.cls \in {"_PyObject", "_FuncCall"}
HasSkipIt(o) == o.cls = "_PyObject"

\* hash(o) succeeds: instances and strings do, lists, sets and dicts do not
RECURSIVE Hashable(_)
Hashable(o) ==
    CASE o.cls \in {"list", "set", "dict"} -> FALSE
      [] o.cls = "tuple" -> \A k \in 1..Len(o.items) : Hashable(o.items[k])
      [] OTHER -> TRUE

\* NOP, UNARY_POSITIVE and the instructions handle() has no branch for
H_NOP(h) == h

\* POP_TOP
H_POP_TOP(h) == Drop(h, 1)

\* ROT_TWO, ROT_THREE, ROT_FOUR: self.stack[-n:] = self.rotate(n, self.stack[-n:])
H_ROT(h, n) ==
    LET len == Len(h.stack)
        from == PyIndex(-n, len)
    IN [h EXCEPT !.stack = SubSeq(h.stack, 1, from) \o rotate(n, PySlice(h.stack, -n, len))]

\* the prefix of a unary instruction
UnaryPrefix(opcode) ==
    CASE opcode = "UNARY_NEGATIVE" -> "-"
      [] opcode = "UNARY_NOT" -> "not "
      [] opcode = "UNARY_INVERT" -> "~"

unary_operations == {"UNARY_NEGATIVE", "UNARY_NOT", "UNARY_INVERT"}

\* UNARY_NEGATIVE, UNARY_NOT, UNARY_INVERT:
\* self.top().val = prefix + self.top().val
H_UNARY(h, opcode) ==
    LET len == Len(h.stack)
        o == Top(h)
    IN IF len = 0 THEN Raise(h, "IndexError")
       ELSE IF ~HasVal(o) THEN Raise(h, "AttributeError")
       ELSE IF o.cls = "_FuncCall"
       THEN [h EXCEPT !.stack[len].val = UnaryPrefix(opcode) \o o.val]
       ELSE IF o.val.t # "str" THEN Raise(h, "TypeError")
       ELSE [h EXCEPT !.stack[len].val = StrV(UnaryPrefix(opcode) \o o.val.s)]

\* LOAD_CONST
H_LOAD_CONST(h, arg) == Push(h, PyObject(arg, 0, 0))

\* LOAD_NAME
H_LOAD_NAME(h, arg) == Push(h, PyObject(arg, 1, 0))

\* _make_list(argc)
make_list(h, argc) == pop_n_rev(h, argc)

\* BUILD_LIST, BUILD_TUPLE
H_BUILD_LIST(h, arg) ==
    LET argc == Min(BitsCapped(arg.bits), Len(h.stack) + 1)
        after == Drop(h, argc)
    IN IF after.exc # "none" THEN after ELSE Push(after, NativeList(make_list(h, argc)))

H_BUILD_TUPLE(h, arg) ==
    LET argc == Min(BitsCapped(arg.bits), Len(h.stack) + 1)
        after == Drop(h, argc)
    IN IF after.exc # "none" THEN after ELSE Push(after, NativeTuple(make_list(h, argc)))

\* BUILD_SET: set() of an unhashable element raises TypeError
H_BUILD_SET(h, arg) ==
    LET argc == Min(BitsCapped(arg.bits), Len(h.stack) + 1)
        after == Drop(h, argc)
        items == make_list(h, argc)
    IN IF after.exc # "none" THEN after
       ELSE IF \E k \in 1..argc : ~Hashable(items[k]) THEN Raise(after, "TypeError")
       ELSE Push(after, NativeSet(items))

\* BUILD_MAP
H_BUILD_MAP(h) == Push(h, NativeDict(<<>>))

\* self.stack[-1][key] = value raises nothing: the target is a dict and the
\* key can be hashed
Storable(target, key) == target.cls = "dict" /\ Hashable(key)

\* the exception of self.stack[-1][key] = value otherwise: an instance of a
\* class of this module has no __setitem__
StoreError(target) ==
    IF target.cls \in {"_PyObject", "_FuncCall", "_MathOperation"}
    THEN "AttributeError" ELSE "TypeError"

\* STORE_MAP with the operands the other way round: value = pop(), key = pop()
H_STORE_MAP_ValueFirst(h) ==
    LET after == Drop(h, 2)
        p == Popped(h, 2)
        value == p[1]
        key == p[2]
        len == Len(after.stack)
    IN IF after.exc # "none" THEN after
       ELSE IF len = 0 THEN Raise(after, "IndexError")
       ELSE IF ~Storable(after.stack[len], key)
       THEN Raise(after, StoreError(after.stack[len]))
       ELSE [after EXCEPT !.stack[len] =
                NativeDict(Keyed(after.stack[len].items, key, value, h.slot))]

\* STORE_MAP: key = pop(), value = pop(), self.stack[-1][key] = value
H_STORE_MAP(h) ==
    LET after == Drop(h, 2)
        p == Popped(h, 2)
        key == p[1]
        value == p[2]
        len == Len(after.stack)
    IN IF after.exc # "none" THEN after
       ELSE IF len = 0 THEN Raise(after, "IndexError")
       ELSE IF ~Storable(after.stack[len], key)
       THEN Raise(after, StoreError(after.stack[len]))
       ELSE [after EXCEPT !.stack[len] =
                NativeDict(Keyed(after.stack[len].items, key, value, h.slot))]

\* the print statements
print_statements == {"PRINT_ITEM_TO", "PRINT_NEWLINE_TO", "PRINT_ITEM", "PRINT_NEWLINE"}

\* PRINT_ITEM_TO formats top() and then pop(), the same entry twice; the
\* other three format pop() or nothing
H_PRINT(h, opcode) ==
    LET n == IF opcode = "PRINT_NEWLINE" THEN 0 ELSE 1
        after == Drop(h, n)
        p == Popped(h, n)
        text ==
            CASE opcode = "PRINT_ITEM_TO" ->
                    "print >> " \o ObjStr(Top(h)) \o ", " \o ObjStr(p[1])
              [] opcode = "PRINT_NEWLINE_TO" -> "print >> " \o ObjStr(p[1])
              [] opcode = "PRINT_ITEM" -> "print(" \o ObjStr(p[1]) \o ", end='')"
              [] opcode = "PRINT_NEWLINE" -> "print()"
    IN IF after.exc # "none" THEN after ELSE Emit(after, text)

\* the operator symbol of an instruction of math_operations
MathSymbol(opcode) ==
    CASE opcode \in {"BINARY_POWER", "INPLACE_POWER"} -> "**"
      [] opcode \in {"BINARY_MULTIPLY", "INPLACE_MULTIPLY"} -> "*"
      [] opcode \in {"BINARY_FLOOR_DIVIDE", "INPLACE_FLOOR_DIVIDE"} -> "//"
      [] opcode \in {"BINARY_TRUE_DIVIDE", "INPLACE_TRUE_DIVIDE"} -> "/"
      [] opcode \in {"BINARY_MODULO", "INPLACE_MODULO"} -> "%"
      [] opcode \in {"BINARY_ADD", "INPLACE_ADD"} -> "+"
      [] opcode \in {"BINARY_SUBTRACT", "INPLACE_SUBTRACT"} -> "-"
      [] opcode \in {"BINARY_LSHIFT", "INPLACE_LSHIFT"} -> "<<"
      [] opcode \in {"BINARY_RSHIFT", "INPLACE_RSHIFT"} -> ">>"
      [] opcode \in {"BINARY_AND", "INPLACE_AND"} -> "&"
      [] opcode \in {"BINARY_XOR", "INPLACE_XOR"} -> "^"
      [] opcode \in {"BINARY_OR", "INPLACE_OR"} -> "|"

math_operations ==
    {"BINARY_POWER", "BINARY_MULTIPLY", "BINARY_FLOOR_DIVIDE", "BINARY_TRUE_DIVIDE",
     "BINARY_MODULO", "BINARY_ADD", "BINARY_SUBTRACT", "BINARY_LSHIFT", "BINARY_RSHIFT",
     "BINARY_AND", "BINARY_XOR", "BINARY_OR",
     "INPLACE_POWER", "INPLACE_MULTIPLY", "INPLACE_FLOOR_DIVIDE", "INPLACE_TRUE_DIVIDE",
     "INPLACE_MODULO", "INPLACE_ADD", "INPLACE_SUBTRACT", "INPLACE_LSHIFT",
     "INPLACE_RSHIFT", "INPLACE_AND", "INPLACE_XOR", "INPLACE_OR"}

\* an instruction of math_operations: val2 = pop(), val1 = pop()
H_MATH(h, opcode) ==
    LET after == Drop(h, 2)
        p == Popped(h, 2)
    IN IF after.exc # "none" THEN after
       ELSE Push(after, MathOperation(p[2], p[1], MathSymbol(opcode)))

slice_expression == {"SLICE_0", "SLICE_1", "SLICE_2", "SLICE_3"}

\* an instruction of slice_expression
H_SLICE(h, opcode) ==
    LET n == CASE opcode = "SLICE_0" -> 1
               [] opcode = "SLICE_1" -> 2
               [] opcode = "SLICE_2" -> 2
               [] opcode = "SLICE_3" -> 3
        after == Drop(h, n)
        a == pop_n_rev(h, n)
        val == CASE opcode = "SLICE_0" -> ObjStr(a[1]) \o "[:]"
                 [] opcode = "SLICE_1" -> ObjStr(a[1]) \o "[" \o ObjStr(a[2]) \o ":]"
                 [] opcode = "SLICE_2" -> ObjStr(a[1]) \o "[:" \o ObjStr(a[2]) \o "]"
                 [] opcode = "SLICE_3" ->
                        ObjStr(a[1]) \o "[" \o ObjStr(a[2]) \o ":" \o ObjStr(a[3]) \o "]"
    IN IF after.exc # "none" THEN after ELSE Push(after, PyObject(StrV(val), 1, 0))

slice_statemant ==
    {"STORE_SLICE_0", "STORE_SLICE_1", "STORE_SLICE_2", "STORE_SLICE_3",
     "DELETE_SLICE_0", "DELETE_SLICE_1", "DELETE_SLICE_2", "DELETE_SLICE_3",
     "STORE_SUBSCR", "DELETE_SUBSCR"}

\* pop_n_rev_rot(shiftn, popn)
pop_n_rev_rot(h, shiftn, popn) == rotate(shiftn, pop_n_rev(h, popn))

\* the calls of pop() an instruction of slice_statemant makes; DELETE_SUBSCR
\* makes none: its pop_n_rev is no name of the scope
SlicePops(opcode) ==
    CASE opcode = "STORE_SLICE_0" -> 2
      [] opcode \in {"STORE_SLICE_1", "STORE_SLICE_2", "STORE_SUBSCR"} -> 3
      [] opcode = "STORE_SLICE_3" -> 4
      [] opcode = "DELETE_SLICE_0" -> 1
      [] opcode \in {"DELETE_SLICE_1", "DELETE_SLICE_2"} -> 2
      [] opcode = "DELETE_SLICE_3" -> 3
      [] opcode = "DELETE_SUBSCR" -> 0

\* the operands of an instruction of slice_statemant in the order its format
\* takes them: as popped, reversed, or reversed and rotated by one
SliceOperands(h, opcode) ==
    LET n == SlicePops(opcode)
    IN IF opcode \in {"STORE_SLICE_0", "DELETE_SLICE_0"} THEN Popped(h, n)
       ELSE IF opcode \in {"DELETE_SLICE_1", "DELETE_SLICE_2", "DELETE_SLICE_3"}
       THEN pop_n_rev(h, n)
       ELSE pop_n_rev_rot(h, 1, n)

\* the statement an instruction of slice_statemant formats from the texts s
\* of its operands; DELETE_SLICE_2 has the format of DELETE_SLICE_1
SliceStatement(opcode, s) ==
    CASE opcode = "STORE_SLICE_0" -> s[1] \o "[:] = " \o s[2]
      [] opcode = "STORE_SLICE_1" -> s[1] \o "[" \o s[2] \o ":] = " \o s[3]
      [] opcode = "STORE_SLICE_2" -> s[1] \o "[:" \o s[2] \o "] = " \o s[3]
      [] opcode = "STORE_SLICE_3" -> s[1] \o "[" \o s[2] \o ":" \o s[3] \o "] = " \o s[4]
      [] opcode = "DELETE_SLICE_0" -> "del " \o s[1] \o "[:]"
      [] opcode = "DELETE_SLICE_1" -> "del " \o s[1] \o "[" \o s[2] \o ":]"
      [] opcode = "DELETE_SLICE_2" -> "del " \o s[1] \o "[" \o s[2] \o ":]"
      [] opcode = "DELETE_SLICE_3" -> "del " \o s[1] \o "[" \o s[2] \o ":" \o s[3] \o "]"
      [] opcode = "STORE_SUBSCR" -> s[1] \o "[" \o s[2] \o "] = " \o s[3]

\* the texts of a sequence of operands
Texts(ops) == [k \in 1..Len(ops) |-> ObjStr(ops[k])]

\* an instruction of slice_statemant
H_SLICE_STATEMENT(h, opcode) ==
    LET after == Drop(h, SlicePops(opcode))
    IN IF opcode = "DELETE_SUBSCR" THEN Raise(h, "NameError")
       ELSE IF after.exc # "none" THEN after
       ELSE Emit(after, SliceStatement(opcode, Texts(SliceOperands(h, opcode))))

\* BINARY_SUBSCR: tos = pop(), tos1 = pop()
H_BINARY_SUBSCR(h) ==
    LET after == Drop(h, 2)
        p == Popped(h, 2)
    IN IF after.exc # "none" THEN after
       ELSE Push(after, NativeStr(ObjStr(p[2]) \o "[" \o ObjStr(p[1]) \o "]"))

\* IMPORT_NAME: the name is pushed as it is
H_IMPORT_NAME(h, arg) ==
    LET after == Drop(h, 1)
    IN IF after.exc # "none" THEN after ELSE Push(after, NativeStr(ArgStr(arg)))

\* IMPORT_FROM: the operand stays
H_IMPORT_FROM(h, arg) ==
    IF Len(h.stack) = 0 THEN Raise(h, "IndexError")
    ELSE Push(h, NativeStr(ObjStr(Top(h)) \o "." \o ArgStr(arg)))

function_call ==
    {"CALL_FUNCTION", "CALL_FUNCTION_VAR", "CALL_FUNCTION_KW", "CALL_FUNCTION_VAR_KW"}

\* an instruction of function_call.  The operands are popped in this order:
\* ext_dict, ext_list, kargc times (value, key), pargc positional operands, the
\* callee; kargs[key] = val hashes the key.  _FuncCall then reads k.val of
\* every key and adds it to a str.
H_CALL(h, opcode, arg) ==
    LET pargc == LowByte(arg.bits)
        kargc == SecondByte(arg.bits)
        len == Len(h.stack)
        nd == IF opcode \in {"CALL_FUNCTION_KW", "CALL_FUNCTION_VAR_KW"} THEN 1 ELSE 0
        nl == IF opcode \in {"CALL_FUNCTION_VAR", "CALL_FUNCTION_VAR_KW"} THEN 1 ELSE 0
        next == nd + nl
        n == next + 2 * kargc + pargc + 1
        at(k) == h.stack[len + 1 - k]
        ext_dict == IF nd = 1 THEN <<at(1)>> ELSE <<>>
        ext_list == IF nl = 1 THEN <<at(nd + 1)>> ELSE <<>>
        \* the pairs read_kargs can pop
        reach == Min(kargc, IF len < next THEN 0 ELSE (len - next) \div 2)
        unhashable == {j \in 1..reach : ~Hashable(at(next + 2 * j))}
        kargs == DictOf([j \in 1..kargc |-> <<at(next + 2 * j), at(next + 2 * j - 1)>>],
                        h.slot)
        pargs == [j \in 1..pargc |-> at(next + 2 * kargc + pargc + 1 - j)]
        func_name == ObjRepr(at(n))
        noval == {j \in 1..Len(kargs) : ~HasVal(kargs[j][1])}
        nostr == {j \in 1..Len(kargs) :
                    /\ HasVal(kargs[j][1])
                    /\ kargs[j][1].cls = "_PyObject"
                    /\ kargs[j][1].val.t # "str"}
        first(S) == CHOOSE j \in S : \A k \in S : j <= k
    IN IF len < next THEN Drop(h, next)
       ELSE IF unhashable # {}
       THEN Raise(Drop(h, next + 2 * first(unhashable)), "TypeError")
       ELSE IF len < n THEN Drop(h, n)
       ELSE IF noval \cup nostr # {}
       THEN Raise(Drop(h, n),
                  IF first(noval \cup nostr) \in noval THEN "AttributeError" ELSE "TypeError")
       ELSE Push(Drop(h, n), FuncCall(func_name, pargs, kargs, ext_list, ext_dict))

\* MAKE_FUNCTION: pops the code object, then always two operands
H_MAKE_FUNCTION(h, arg) ==
    LET o == Top(h)
        code_obj == o.val
        after1 == Drop(h, 1)
        func_name == code_obj.co_name
        argc == code_obj.co_argcount
        kwargc == BitsCapped(arg.bits)
        local_vars == code_obj.co_varnames
        after2 == Drop(after1, 2)
        defaults == pop_n_rev(after1, 2)
        keys == PySlice(local_vars, argc - kwargc, argc)
        all_args ==
            PySlice(local_vars, 0, argc - kwargc)
            \o [k \in 1..Min(Len(keys), 2) |-> keys[k] \o "=" \o ObjStr(defaults[k])]
    IN IF Len(h.stack) = 0 THEN after1
       ELSE IF ~HasVal(o) THEN Raise(after1, "AttributeError")
       ELSE IF o.cls # "_PyObject" \/ code_obj.t # "code" THEN Raise(after1, "AttributeError")
       ELSE IF after2.exc # "none" THEN after2
       ELSE Push(Emit(after2, "def " \o func_name \o "(" \o Join(all_args, ", ") \o "):"),
                 PyObject(IntV(0), 0, 1))

\* RETURN_VALUE: arg is the argument of the instruction
H_RETURN_VALUE(h, arg) ==
    LET said == IF Truthy(arg) THEN Emit(h, "return " \o ArgStr(arg)) ELSE h
    IN [said EXCEPT !.indent_count = h.indent_count - 1]

\* DELETE_NAME
H_DELETE_NAME(h, arg) == Emit(h, "del " \o ArgStr(arg))

\* STORE_NAME without the test of skip_it
H_STORE_NAME_NoSkip(h, arg) ==
    LET tos == Top(h)
        after == Drop(h, 1)
    IN IF after.exc # "none" THEN after
       ELSE Emit(after, Assigment(ArgStr(arg), tos))

\* STORE_NAME
H_STORE_NAME(h, arg) ==
    LET tos == Top(h)
        after == Drop(h, 1)
    IN IF after.exc # "none" THEN after
       ELSE IF HasSkipIt(tos) /\ tos.skip_it = 0
       THEN Emit(after, Assigment(ArgStr(arg), tos))
       ELSE after

\* handle(opcode, arg)
handle(h, opcode, arg) ==
    CASE opcode = "NOP" -> H_NOP(h)
      [] opcode = "POP_TOP" -> H_POP_TOP(h)
      [] opcode = "ROT_TWO" -> H_ROT(h, 2)
      [] opcode = "ROT_THREE" -> H_ROT(h, 3)
      [] opcode = "ROT_FOUR" -> H_ROT(h, 4)
      [] opcode = "UNARY_POSITIVE" -> H_NOP(h)
      [] opcode \in unary_operations -> H_UNARY(h, opcode)
      [] opcode = "LOAD_CONST" -> H_LOAD_CONST(h, arg)
      [] opcode = "LOAD_NAME" -> H_LOAD_NAME(h, arg)
      [] opcode = "BUILD_LIST" -> H_BUILD_LIST(h, arg)
      [] opcode = "BUILD_SET" -> H_BUILD_SET(h, arg)
      [] opcode = "BUILD_TUPLE" -> H_BUILD_TUPLE(h, arg)
      [] opcode = "BUILD_MAP" -> H_BUILD_MAP(h)
      [] opcode = "STORE_MAP" -> H_STORE_MAP(h)
      [] opcode \in math_operations -> H_MATH(h, opcode)
      [] opcode \in slice_expression -> H_SLICE(h, opcode)
      [] opcode \in slice_statemant -> H_SLICE_STATEMENT(h, opcode)
      [] opcode \in print_statements -> H_PRINT(h, opcode)
      [] opcode = "BINARY_SUBSCR" -> H_BINARY_SUBSCR(h)
      [] opcode = "IMPORT_NAME" -> H_IMPORT_NAME(h, arg)
      [] opcode = "IMPORT_FROM" -> H_IMPORT_FROM(h, arg)
      [] opcode \in function_call -> H_CALL(h, opcode, arg)
      [] opcode = "MAKE_FUNCTION" -> H_MAKE_FUNCTION(h, arg)
      [] opcode = "RETURN_VALUE" -> H_RETURN_VALUE(h, arg)
      [] opcode = "DELETE_NAME" -> H_DELETE_NAME(h, arg)
      [] opcode = "STORE_NAME" -> H_STORE_NAME(h, arg)
      [] OTHER -> H_NOP(h)

-----------------------------------------------------------------------------
(* The opcode table, unwind/op.py: the byte of each instruction, which     *)
(* instructions carry an argument, which magic numbers are known.          *)

HAVE_ARGUMENT == 90

OpNames ==
    {"POP_TOP", "ROT_TWO", "ROT_THREE", "ROT_FOUR", "NOP", "BINARY_ADD",
     "BINARY_SUBSCR", "INPLACE_SUBTRACT", "SLICE_0", "SLICE_1", "SLICE_2", "SLICE_3",
     "RETURN_VALUE", "STORE_NAME", "DELETE_NAME", "STORE_ATTR", "STORE_GLOBAL",
     "LOAD_CONST", "LOAD_NAME", "BUILD_TUPLE", "BUILD_LIST", "BUILD_SET",
     "LOAD_ATTR", "IMPORT_NAME", "LOAD_GLOBAL", "LOAD_FAST", "STORE_FAST",
     "DELETE_FAST", "DELETE_ATTR", "DELETE_GLOBAL", "IMPORT_FROM",
     "CALL_FUNCTION", "MAKE_FUNCTION", "CALL_FUNCTION_VAR",
     "CALL_FUNCTION_KW", "CALL_FUNCTION_VAR_KW", "EXTENDED_ARG",
     "BUILD_MAP", "STORE_MAP", "UNARY_POSITIVE", "UNARY_NEGATIVE", "UNARY_NOT",
     "UNARY_INVERT", "STORE_SLICE_0", "STORE_SLICE_1", "STORE_SLICE_2", "STORE_SLICE_3",
     "DELETE_SLICE_0", "DELETE_SLICE_1", "DELETE_SLICE_2", "DELETE_SLICE_3",
     "STORE_SUBSCR", "DELETE_SUBSCR", "PRINT_ITEM", "PRINT_NEWLINE",
     "PRINT_ITEM_TO", "PRINT_NEWLINE_TO"}

\* the byte of an instruction in the bytecode of Python 2.7
OpByte(opcode) ==
    CASE opcode = "POP_TOP" -> 1
      [] opcode = "ROT_TWO" -> 2
      [] opcode = "ROT_THREE" -> 3
      [] opcode = "ROT_FOUR" -> 5
      [] opcode = "NOP" -> 9
      [] opcode = "UNARY_POSITIVE" -> 10
      [] opcode = "UNARY_NEGATIVE" -> 11
      [] opcode = "UNARY_NOT" -> 12
      [] opcode = "UNARY_INVERT" -> 15
      [] opcode = "BINARY_ADD" -> 23
      [] opcode = "BINARY_SUBSCR" -> 25
      [] opcode = "SLICE_0" -> 30
      [] opcode = "SLICE_1" -> 31
      [] opcode = "SLICE_2" -> 32
      [] opcode = "SLICE_3" -> 33
      [] opcode = "STORE_SLICE_0" -> 40
      [] opcode = "STORE_SLICE_1" -> 41
      [] opcode = "STORE_SLICE_2" -> 42
      [] opcode = "STORE_SLICE_3" -> 43
      [] opcode = "DELETE_SLICE_0" -> 50
      [] opcode = "DELETE_SLICE_1" -> 51
      [] opcode = "DELETE_SLICE_2" -> 52
      [] opcode = "DELETE_SLICE_3" -> 53
      [] opcode = "STORE_MAP" -> 54
      [] opcode = "STORE_SUBSCR" -> 60
      [] opcode = "DELETE_SUBSCR" -> 61
      [] opcode = "PRINT_ITEM" -> 71
      [] opcode = "PRINT_NEWLINE" -> 72
      [] opcode = "PRINT_ITEM_TO" -> 73
      [] opcode = "PRINT_NEWLINE_TO" -> 74
      [] opcode = "INPLACE_SUBTRACT" -> 56
      [] opcode = "RETURN_VALUE" -> 83
      [] opcode = "STORE_NAME" -> 90
      [] opcode = "DELETE_NAME" -> 91
      [] opcode = "STORE_ATTR" -> 95
      [] opcode = "DELETE_ATTR" -> 96
      [] opcode = "STORE_GLOBAL" -> 97
      [] opcode = "DELETE_GLOBAL" -> 98
      [] opcode = "LOAD_CONST" -> 100
      [] opcode = "LOAD_NAME" -> 101
      [] opcode = "BUILD_TUPLE" -> 102
      [] opcode = "BUILD_LIST" -> 103
      [] opcode = "BUILD_SET" -> 104
      [] opcode = "BUILD_MAP" -> 105
      [] opcode = "LOAD_ATTR" -> 106
      [] opcode = "IMPORT_NAME" -> 108
      [] opcode = "IMPORT_FROM" -> 109
      [] opcode = "LOAD_GLOBAL" -> 116
      [] opcode = "LOAD_FAST" -> 124
      [] opcode = "STORE_FAST" -> 125
      [] opcode = "DELETE_FAST" -> 126
      [] opcode = "CALL_FUNCTION" -> 131
      [] opcode = "MAKE_FUNCTION" -> 132
      [] opcode = "CALL_FUNCTION_VAR" -> 140
      [] opcode = "CALL_FUNCTION_KW" -> 141
      [] opcode = "CALL_FUNCTION_VAR_KW" -> 142
      [] opcode = "EXTENDED_ARG" -> 145

\* op.from_bytecode(byte, magic): "None" for a byte the table does not map
from_bytecode(byte, m) ==
    IF \E o \in OpNames : OpByte(o) = byte
    THEN CHOOSE o \in OpNames : OpByte(o) = byte
    ELSE "None"

\* op.has_argument(opcode)
has_argument(opcode) == OpByte(opcode) >= HAVE_ARGUMENT

\* op.python_version_from_magic(magic): "" for an unknown magic number
python_version_from_magic(m) == IF m = 62211 THEN "2.7" ELSE ""

-----------------------------------------------------------------------------
(* The instruction-decoding loop of unmarshal_node, one iteration a step.  *)

\* Opcode(offset, size, opcode, argument)
Opcode(offset, size, opcode, arg) ==
    [offset |-> offset, size |-> size, opcode |-> opcode, argument |-> arg]

\* the instructions whose argument indexes co_names, and co_varnames
name_opcodes ==
    {"LOAD_NAME", "STORE_NAME", "DELETE_NAME", "LOAD_ATTR", "STORE_ATTR", "DELETE_ATTR",
     "LOAD_GLOBAL", "STORE_GLOBAL", "DELETE_GLOBAL", "IMPORT_NAME", "IMPORT_FROM"}
fast_opcodes == {"LOAD_FAST", "STORE_FAST", "DELETE_FAST"}

\* the table an instruction's argument indexes, <<>> marking none
IndexedTable(c, opcode) ==
    CASE opcode = "LOAD_CONST" -> <<c.co_consts>>
      [] opcode \in name_opcodes -> <<c.co_names>>
      [] opcode \in fast_opcodes -> <<c.co_varnames>>
      [] OTHER -> <<>>

\* argument |= (lo | (hi << 8))
Accumulate(acc, lo, hi) == BitOr(acc, BitOr(NatToBits(lo), ShiftLeft(NatToBits(hi), 8)))

\* argument <<= 8
Extend_By8(acc) == ShiftLeft(acc, 8)

\* argument <<= 16
Extend(acc) == ShiftLeft(acc, 16)

\* argument > len(table)
OutOfRange_OffByOne(acc, table) == BitsGe(acc, Len(table) + 1)

\* argument >= len(table)
OutOfRange(acc, table) == BitsGe(acc, Len(table))

\* table[argument], for an argument the table has
Resolve(acc, table) == table[BitsToNat(acc) + 1]

\* what print(opcode, arg, self.stack) at the head of handle() writes
Trace(opcode, arg, st) == [kind |-> "trace", opcode |-> opcode, arg |-> arg, stack |-> st]

\* what print(command) of print_result() writes
Line(text) == [kind |-> "line", text |-> text]

\* the handler of the code object being decoded
Handler == [stack |-> stack, result |-> result, indent_count |-> indent_count,
            exc |-> "none"]

\* the handler, with the place a key inserted by the call under way takes
HandlerAt(slot) ==
    [stack |-> stack, result |-> result, indent_count |-> indent_count, exc |-> "none",
     slot |-> slot]

\* the EXTENDED_ARG arguments read since the last recorded instruction
Chain == IF last.kind = "ext" THEN last.chain ELSE <<>>

NoStep == [kind |-> "none", chain |-> <<>>]

\* the call fails with exception e
Fail(e) == pc' = "failed" /\ error' = e

\* i += 1 where the argument bytes are passed
Advance_ByTwo(at, witharg) == IF witharg THEN at + 2 ELSE at + 1

\* i += 1 for the byte of the instruction, i += 2 for the bytes of its argument
Advance(at, witharg) == IF witharg THEN at + 3 ELSE at + 1

\* EXTENDED_ARG taken for an instruction like the others
IsExtendedArg_Never(opcode) == FALSE

\* if opcode == op.EXTENDED_ARG: the iteration ends at continue
IsExtendedArg(opcode) == opcode = "EXTENDED_ARG"

\* One iteration of the while loop that reads an instruction the table maps:
\* the byte of opcode at i and, when it has an argument, lo and hi after it.
StepAt(opcode, lo, hi, slot) ==
    LET offset == i
        witharg == has_argument(opcode)
        left == co.len - (i + 1)
        short == witharg /\ left < 2
        acc == IF witharg THEN Accumulate(argument, lo, hi) ELSE argument
        next == Advance(i, witharg)
        table == IndexedTable(co, opcode)
        bad == witharg /\ Len(table) = 1 /\ OutOfRange(acc, table[1])
        \* table[argument] raises IndexError past the end of the table
        past == witharg /\ Len(table) = 1 /\ ~bad /\ BitsGe(acc, Len(table[1]))
        arg == IF ~witharg THEN NoneV
               ELSE IF Len(table) = 1 THEN Resolve(acc, table[1])
               ELSE RawV(acc)
        h == handle(HandlerAt(slot), opcode, arg)
        step == [kind |-> "instr", opcode |-> opcode, offset |-> offset, lo |-> lo,
                 hi |-> hi, chain |-> Chain, before |-> Handler,
                 recorded |-> Len(opcodes)]
    IN /\ pc = "loop"
       /\ i < co.len
       /\ <<opcode, lo, hi>> \in input.instrs
       /\ UNCHANGED <<magic, string_table, pending, node, co, input, nodes>>
       /\ IF short
          THEN \* lo, hi = co.co_code[i:i + 2] unpacks fewer than two values
               /\ Fail("ValueError")
               /\ co_code' = co_code \o <<OpByte(opcode)>> \o SubSeq(<<lo>>, 1, left)
               /\ i' = i + 1
               /\ last' = [step EXCEPT !.kind = "short"]
               /\ UNCHANGED <<argument, opcodes, stack, result, indent_count, printed>>
          ELSE /\ co_code' = co_code \o <<OpByte(opcode)>>
                                \o (IF witharg THEN <<lo, hi>> ELSE <<>>)
               /\ i' = next
               /\ IF IsExtendedArg(opcode)
                  THEN /\ argument' = Extend(acc)
                       /\ last' = [kind |-> "ext", chain |-> Append(Chain, lo + 256 * hi)]
                       /\ UNCHANGED <<pc, error, opcodes, stack, result, indent_count,
                                      printed>>
                  ELSE IF bad \/ past
                  THEN /\ Fail(IF bad THEN "DisassemblerException" ELSE "IndexError")
                       /\ argument' = acc
                       /\ last' = [step EXCEPT !.kind = "bad"]
                       /\ UNCHANGED <<opcodes, stack, result, indent_count, printed>>
                  ELSE /\ opcodes' = Append(opcodes, Opcode(offset, next - offset, opcode, arg))
                       /\ printed' = Append(printed, Trace(opcode, arg, stack))
                       /\ stack' = h.stack
                       /\ result' = h.result
                       /\ indent_count' = h.indent_count
                       /\ last' = step
                       /\ IF h.exc # "none"
                          THEN Fail(h.exc) /\ argument' = acc
                          ELSE argument' = <<>> /\ UNCHANGED <<pc, error>>

\* an iteration for an instruction that inserts no key
Step(opcode, lo, hi) == StepAt(opcode, lo, hi, 0)

\* an iteration that reads a byte the table does not map
StepUnknownBytecode ==
    /\ pc = "loop"
    /\ i < co.len
    /\ \E b \in input.unknown :
          /\ from_bytecode(b, magic) = "None"
          /\ co_code' = Append(co_code, b)
    /\ Fail("DisassemblerException")
    /\ last' = [kind |-> "unknown", chain |-> Chain]
    /\ UNCHANGED <<magic, string_table, pending, node, co, i, argument, opcodes, stack,
                   result, indent_count, printed, input, nodes>>

\* The iterations of the loop, by the instruction read; the input decides
\* which instructions and argument bytes can follow.
unhandled_opcodes ==
    {"LOAD_ATTR", "STORE_ATTR", "DELETE_ATTR", "LOAD_GLOBAL", "STORE_GLOBAL",
     "DELETE_GLOBAL", "LOAD_FAST", "STORE_FAST", "DELETE_FAST"}

StepNop ==
    /\ pc = "loop"
    /\ \E ins \in input.instrs : ins[1] \in {"NOP"} /\ Step(ins[1], ins[2], ins[3])
StepPopTop ==
    /\ pc = "loop"
    /\ \E ins \in input.instrs : ins[1] \in {"POP_TOP"} /\ Step(ins[1], ins[2], ins[3])
StepRot ==
    /\ pc = "loop"
    /\ \E ins \in input.instrs : ins[1] \in {"ROT_TWO", "ROT_THREE", "ROT_FOUR"} /\ Step(ins[1], ins[2], ins[3])
StepUnary ==
    /\ pc = "loop"
    /\ \E ins \in input.instrs :
          ins[1] \in unary_operations \cup {"UNARY_POSITIVE"} /\ Step(ins[1], ins[2], ins[3])
StepLoadConst ==
    /\ pc = "loop"
    /\ \E ins \in input.instrs : ins[1] \in {"LOAD_CONST"} /\ Step(ins[1], ins[2], ins[3])
StepLoadName ==
    /\ pc = "loop"
    /\ \E ins \in input.instrs : ins[1] \in {"LOAD_NAME"} /\ Step(ins[1], ins[2], ins[3])
StepBuild ==
    /\ pc = "loop"
    /\ \E ins \in input.instrs : ins[1] \in {"BUILD_LIST", "BUILD_TUPLE", "BUILD_SET"} /\ Step(ins[1], ins[2], ins[3])
StepBuildMap ==
    /\ pc = "loop"
    /\ \E ins \in input.instrs : ins[1] \in {"BUILD_MAP"} /\ Step(ins[1], ins[2], ins[3])
StepStoreMap ==
    /\ pc = "loop"
    /\ \E ins \in input.instrs, slot \in Slots :
          ins[1] \in {"STORE_MAP"} /\ StepAt(ins[1], ins[2], ins[3], slot)
StepMath ==
    /\ pc = "loop"
    /\ \E ins \in input.instrs : ins[1] \in math_operations /\ Step(ins[1], ins[2], ins[3])
StepSlice ==
    /\ pc = "loop"
    /\ \E ins \in input.instrs : ins[1] \in slice_expression /\ Step(ins[1], ins[2], ins[3])
StepSliceStatement ==
    /\ pc = "loop"
    /\ \E ins \in input.instrs : ins[1] \in slice_statemant /\ Step(ins[1], ins[2], ins[3])
StepPrint ==
    /\ pc = "loop"
    /\ \E ins \in input.instrs : ins[1] \in print_statements /\ Step(ins[1], ins[2], ins[3])
StepBinarySubscr ==
    /\ pc = "loop"
    /\ \E ins \in input.instrs : ins[1] \in {"BINARY_SUBSCR"} /\ Step(ins[1], ins[2], ins[3])
StepImportName ==
    /\ pc = "loop"
    /\ \E ins \in input.instrs : ins[1] \in {"IMPORT_NAME"} /\ Step(ins[1], ins[2], ins[3])
StepImportFrom ==
    /\ pc = "loop"
    /\ \E ins \in input.instrs : ins[1] \in {"IMPORT_FROM"} /\ Step(ins[1], ins[2], ins[3])
StepCall ==
    /\ pc = "loop"
    /\ \E ins \in input.instrs, slot \in Slots :
          ins[1] \in function_call /\ StepAt(ins[1], ins[2], ins[3], slot)
StepMakeFunction ==
    /\ pc = "loop"
    /\ \E ins \in input.instrs : ins[1] \in {"MAKE_FUNCTION"} /\ Step(ins[1], ins[2], ins[3])
StepReturnValue ==
    /\ pc = "loop"
    /\ \E ins \in input.instrs : ins[1] \in {"RETURN_VALUE"} /\ Step(ins[1], ins[2], ins[3])
StepDeleteName ==
    /\ pc = "loop"
    /\ \E ins \in input.instrs : ins[1] \in {"DELETE_NAME"} /\ Step(ins[1], ins[2], ins[3])
StepStoreName ==
    /\ pc = "loop"
    /\ \E ins \in input.instrs : ins[1] \in {"STORE_NAME"} /\ Step(ins[1], ins[2], ins[3])
\* the instructions with an indexed argument that handle() has no branch for
StepUnhandled ==
    /\ pc = "loop"
    /\ \E ins \in input.instrs : ins[1] \in unhandled_opcodes /\ Step(ins[1], ins[2], ins[3])
StepExtendedArg ==
    /\ pc = "loop"
    /\ \E ins \in input.instrs : ins[1] \in {"EXTENDED_ARG"} /\ Step(ins[1], ins[2], ins[3])

\* the loop ends: handler.print_result(), return co
Finish ==
    /\ pc = "loop"
    /\ i >= co.len
    /\ pending = <<>>
    /\ pc' = "done"
    /\ printed' = printed \o [k \in 1..Len(result) |-> Line(result[k])]
    /\ node' = [t |-> "code", co_name |-> co.co_name]
    /\ UNCHANGED <<error, magic, string_table, pending, co, co_code, i, argument,
                   opcodes, stack, result, indent_count, input, nodes, last>>

-----------------------------------------------------------------------------
(* The inputs of the model: code objects whose tables are fixed and whose  *)
(* bytecode is any sequence, of the given length, over a family of         *)
(* instructions and argument bytes.                                        *)

\* def name(a, b=5), as the code object a constant table holds
Inner == CodeV("name", 2, <<"a", "b">>)

\* the instruction opcode with each of the given argument values in its two bytes
Ins(opcode, args) == {<<opcode, a % 256, a \div 256>> : a \in args}

Family(instrs, unknown, consts, names, varnames, len) ==
    [instrs |-> instrs, unknown |-> unknown, co_consts |-> consts,
     co_names |-> names, co_varnames |-> varnames, len |-> len]

\* calls of a name with constants, bound to a name
CallFamily ==
    Family(Ins("LOAD_NAME", {0}) \cup Ins("LOAD_CONST", {0, 1})
             \cup Ins("CALL_FUNCTION", {0, 2}) \cup Ins("STORE_NAME", {1}),
           {}, <<IntV(1), IntV(2)>>, <<StrV("f"), StrV("x")>>, <<>>, MaxCode)

\* arithmetic on constants, returned or bound
ArithFamily ==
    Family(Ins("LOAD_CONST", {0, 1, 2}) \cup Ins("BINARY_ADD", {0})
             \cup Ins("INPLACE_SUBTRACT", {0}) \cup Ins("RETURN_VALUE", {0})
             \cup Ins("STORE_NAME", {0}),
           {}, <<IntV(2), IntV(3)>>, <<StrV("x")>>, <<>>, MaxCode - 7)

\* function definitions over a nested code object
DefineFamily ==
    Family(Ins("LOAD_CONST", {0, 1}) \cup Ins("LOAD_NAME", {0})
             \cup Ins("MAKE_FUNCTION", {0, 1, 2}) \cup Ins("STORE_NAME", {0}),
           {}, <<IntV(5), Inner>>, <<StrV("x")>>, <<>>, MaxCode)

\* subscripts and slices
ExprFamily ==
    Family(Ins("LOAD_NAME", {0}) \cup Ins("LOAD_CONST", {0}) \cup Ins("BINARY_SUBSCR", {0})
             \cup Ins("SLICE_0", {0}) \cup Ins("SLICE_1", {0}) \cup Ins("SLICE_2", {0})
             \cup Ins("SLICE_3", {0}) \cup Ins("STORE_NAME", {0})
             \cup Ins("DELETE_NAME", {0}),
           {}, <<IntV(1)>>, <<StrV("a")>>, <<>>, MaxCode - 5)

\* collections, imports and calls with a * operand
BuildFamily ==
    Family(Ins("LOAD_CONST", {0}) \cup Ins("BUILD_LIST", {0, 1, 2})
             \cup Ins("BUILD_TUPLE", {1}) \cup Ins("BUILD_SET", {0, 1})
             \cup Ins("IMPORT_NAME", {0}) \cup Ins("IMPORT_FROM", {0})
             \cup Ins("STORE_NAME", {0}) \cup Ins("CALL_FUNCTION_VAR", {0}),
           {}, <<StrV("k")>>, <<StrV("m")>>, <<>>, MaxCode - 5)

\* stack shuffles on short stacks
ShuffleFamily ==
    Family(Ins("POP_TOP", {0}) \cup Ins("ROT_TWO", {0}) \cup Ins("ROT_THREE", {0})
             \cup Ins("ROT_FOUR", {0}) \cup Ins("NOP", {0}) \cup Ins("LOAD_CONST", {0}),
           {255}, <<IntV(1)>>, <<>>, <<>>, MaxCode - 10)

\* every instruction with an indexed argument, around the lengths of the tables
IndexFamily ==
    Family(UNION {Ins(o, {0, 1, 2, 256}) :
                    o \in name_opcodes \cup fast_opcodes \cup {"LOAD_CONST", "EXTENDED_ARG"}},
           {255}, <<IntV(1), IntV(2)>>, <<StrV("f"), StrV("x")>>, <<"a", "b">>, MaxCode - 9)

\* arguments folded over EXTENDED_ARG, with extreme bytes
FoldFamily ==
    Family(UNION {Ins(o, {0, 1, 255, 256, 257, 511, 65280, 65281, 65535}) :
                    o \in {"EXTENDED_ARG", "LOAD_CONST", "LOAD_FAST", "BUILD_LIST"}},
           {}, <<IntV(1), IntV(2)>>, <<>>, <<"a", "b">>, MaxCode - 6)

\* calls with keyword arguments
KeywordFamily ==
    Family(Ins("LOAD_NAME", {0}) \cup Ins("LOAD_CONST", {0, 1})
             \cup Ins("CALL_FUNCTION", {256, 512}),
           {}, <<StrV("k"), StrV("j")>>, <<StrV("f")>>, <<>>, MaxCode + 3)

\* calls with * and ** operands
StarFamily ==
    Family(Ins("LOAD_NAME", {0}) \cup Ins("BUILD_LIST", {0}) \cup Ins("BUILD_MAP", {0})
             \cup Ins("CALL_FUNCTION_VAR", {0, 1}) \cup Ins("CALL_FUNCTION_KW", {0})
             \cup Ins("CALL_FUNCTION_VAR_KW", {0}),
           {}, <<>>, <<StrV("f")>>, <<>>, MaxCode - 3)

\* dict displays
MapFamily ==
    Family(Ins("BUILD_MAP", {0}) \cup Ins("LOAD_CONST", {0, 1}) \cup Ins("BUILD_LIST", {0})
             \cup Ins("STORE_MAP", {0}),
           {}, <<StrV("k"), IntV(1)>>, <<>>, <<>>, MaxCode + 2)

\* unary operators on literals, names, sums and calls
UnaryFamily ==
    Family(Ins("LOAD_CONST", {0, 1}) \cup Ins("LOAD_NAME", {0}) \cup Ins("BINARY_ADD", {0})
             \cup Ins("CALL_FUNCTION", {0}) \cup Ins("UNARY_POSITIVE", {0})
             \cup Ins("UNARY_NEGATIVE", {0}) \cup Ins("UNARY_NOT", {0})
             \cup Ins("UNARY_INVERT", {0}),
           {}, <<IntV(5), StrV("s")>>, <<StrV("x")>>, <<>>, MaxCode - 8)

\* rotations of two and three entries that differ
RotateFamily ==
    Family(Ins("LOAD_CONST", {0, 1}) \cup Ins("ROT_TWO", {0}) \cup Ins("ROT_THREE", {0}),
           {}, <<IntV(1), IntV(2)>>, <<>>, <<>>, MaxCode - 5)

\* rotations of four entries
RotateFourFamily ==
    Family(Ins("LOAD_CONST", {0, 1}) \cup Ins("ROT_FOUR", {0}),
           {}, <<IntV(1), IntV(2)>>, <<>>, <<>>, MaxCode - 2)

\* assignments to slices and subscripts
StoreSliceFamily ==
    Family(Ins("LOAD_NAME", {0, 1, 2}) \cup Ins("STORE_SLICE_0", {0})
             \cup Ins("STORE_SLICE_1", {0}) \cup Ins("STORE_SLICE_2", {0})
             \cup Ins("STORE_SLICE_3", {0}) \cup Ins("STORE_SUBSCR", {0}),
           {}, <<>>, <<StrV("a"), StrV("b"), StrV("v")>>, <<>>, MaxCode - 2)

\* deletions of slices and subscripts
DeleteSliceFamily ==
    Family(Ins("LOAD_NAME", {0, 1, 2}) \cup Ins("DELETE_SLICE_0", {0})
             \cup Ins("DELETE_SLICE_1", {0}) \cup Ins("DELETE_SLICE_2", {0})
             \cup Ins("DELETE_SLICE_3", {0}) \cup Ins("DELETE_SUBSCR", {0}),
           {}, <<>>, <<StrV("a"), StrV("b"), StrV("c")>>, <<>>, MaxCode - 5)

\* print statements, to a stream and to the standard output
PrintFamily ==
    Family(Ins("LOAD_NAME", {0, 1}) \cup Ins("PRINT_ITEM_TO", {0})
             \cup Ins("PRINT_NEWLINE_TO", {0}) \cup Ins("PRINT_ITEM", {0})
             \cup Ins("PRINT_NEWLINE", {0}),
           {}, <<>>, <<StrV("out"), StrV("v")>>, <<>>, MaxCode - 7)

\* code of every shape the loop tells apart: instructions with and without
\* an argument, EXTENDED_ARG, arguments no table has, a byte no instruction has
LoopFamily ==
    Family(Ins("EXTENDED_ARG", {0, 1}) \cup Ins("LOAD_CONST", {0, 1})
             \cup Ins("NOP", {0}) \cup Ins("POP_TOP", {0}),
           {255}, <<IntV(1)>>, <<>>, <<>>, MaxCode - 7)

Families ==
    {LoopFamily, PrintFamily, StoreSliceFamily, DeleteSliceFamily, UnaryFamily, RotateFamily, RotateFourFamily, CallFamily, ArithFamily, DefineFamily, ExprFamily, BuildFamily, ShuffleFamily,
     IndexFamily, FoldFamily, KeywordFamily, StarFamily, MapFamily}

\* the state on entry to the loop, after the fields of the code object are read
Init ==
    /\ pc = "loop"
    /\ error = "none"
    /\ magic = 62211
    /\ string_table = <<>>
    /\ pending = <<>>
    /\ node = NoneV
    /\ input \in Families
    /\ co = [co_name |-> "<module>", co_consts |-> input.co_consts,
             co_names |-> input.co_names, co_varnames |-> input.co_varnames,
             len |-> input.len]
    /\ co_code = <<>>
    /\ i = 0
    /\ argument = <<>>
    /\ opcodes = <<>>
    /\ stack = NewHandler.stack
    /\ result = NewHandler.result
    /\ indent_count = NewHandler.indent_count
    /\ printed = <<>>
    /\ nodes = <<>>
    /\ last = NoStep

Next ==
    \/ StepNop
    \/ StepPopTop
    \/ StepRot
    \/ StepUnary
    \/ StepLoadConst
    \/ StepLoadName
    \/ StepBuild
    \/ StepBuildMap
    \/ StepStoreMap
    \/ StepMath
    \/ StepSlice
    \/ StepSliceStatement
    \/ StepPrint
    \/ StepBinarySubscr
    \/ StepImportName
    \/ StepImportFrom
    \/ StepCall
    \/ StepMakeFunction
    \/ StepReturnValue
    \/ StepDeleteName
    \/ StepStoreName
    \/ StepUnhandled
    \/ StepExtendedArg
    \/ StepUnknownBytecode
    \/ Finish

Spec == Init /\ [][Next]_vars

\* the loop over the code of LoopFamily
LiveInit == Init /\ input = LoopFamily

LiveNext ==
    \/ StepNop
    \/ StepPopTop
    \/ StepLoadConst
    \/ StepExtendedArg
    \/ StepUnknownBytecode
    \/ Finish

\* the loop as it runs: an iteration that can be made is made
SpecLive == LiveInit /\ [][LiveNext]_vars /\ WF_vars(LiveNext)

-----------------------------------------------------------------------------
(* A code object among the constants of another.  unmarshal_node decodes   *)
(* co_consts of the enclosing code object, and with it the nested code     *)
(* object and its loop, before the loop of the enclosing one starts; the   *)
(* enclosing code object waits as a frame of pending.                      *)

\* the CodeObject read from the fields family gives
CodeOf(family) ==
    [co_name |-> "<module>", co_consts |-> family.co_consts, co_names |-> family.co_names,
     co_varnames |-> family.co_varnames, len |-> family.len]

\* short statements, and a byte no instruction has
StatementFamily ==
    Family(Ins("LOAD_CONST", {0}) \cup Ins("STORE_NAME", {0}) \cup Ins("POP_TOP", {0})
             \cup Ins("NOP", {0}),
           {255}, <<IntV(1)>>, <<StrV("x")>>, <<>>, MaxCode - 9)

\* the code object a finished loop returns, by what its decoding has left:
\* the instructions recorded, and the lines, stack and indent of its handler
Decoded(name) ==
    [tag |-> "c", co_name |-> name, recorded |-> Len(opcodes), lines |-> result,
     depth |-> Len(stack), indent |-> indent_count]

\* the handler of the code object before were it kept for the next one
EnteringHandler_Kept(h) == h

\* handler = _CommandHandler(): each loop starts with a handler of its own
EnteringHandler(h) == NewHandler

\* the loop of a nested code object ends: handler.print_result(), return co
\* to the unmarshal_node call of the enclosing code object, which reads its
\* remaining fields and enters its own loop with a new handler
FinishNested ==
    /\ pc = "loop"
    /\ i >= co.len
    /\ pending # <<>>
    /\ printed' = printed \o [k \in 1..Len(result) |-> Line(result[k])]
    /\ node' = [t |-> "code", co_name |-> co.co_name]
    /\ pending' = SubSeq(pending, 1, Len(pending) - 1)
    /\ input' = pending[Len(pending)].family
    /\ co' = CodeOf(pending[Len(pending)].family)
    /\ co_code' = <<>>
    /\ i' = 0
    /\ argument' = <<>>
    /\ opcodes' = <<>>
    /\ stack' = EnteringHandler(Handler).stack
    /\ result' = EnteringHandler(Handler).result
    /\ indent_count' = EnteringHandler(Handler).indent_count
    /\ nodes' = Append(nodes, Decoded(co.co_name))
    /\ last' = [kind |-> "nested", chain |-> <<>>]
    /\ UNCHANGED <<pc, error, magic, string_table>>

\* the state on entry to the loop of a code object nested in another
NestedInit ==
    /\ pc = "loop"
    /\ error = "none"
    /\ magic = 62211
    /\ string_table = <<>>
    /\ pending = <<[type |-> "code", family |-> StatementFamily]>>
    /\ node = NoneV
    /\ input = StatementFamily
    /\ co = CodeOf(input)
    /\ co_code = <<>>
    /\ i = 0
    /\ argument = <<>>
    /\ opcodes = <<>>
    /\ stack = NewHandler.stack
    /\ result = NewHandler.result
    /\ indent_count = NewHandler.indent_count
    /\ printed = <<>>
    /\ nodes = <<>>
    /\ last = NoStep

NestedNext ==
    \/ StepNop
    \/ StepPopTop
    \/ StepLoadConst
    \/ StepStoreName
    \/ StepUnknownBytecode
    \/ FinishNested
    \/ Finish

SpecNested == NestedInit /\ [][NestedNext]_vars

-----------------------------------------------------------------------------
(* The value deserializer: disassemble and unmarshal_node for the values   *)
(* that are no code objects.  An open unmarshal_collection call is a frame *)
(* of pending: its type, its count and the elements decoded so far.        *)

\* an int of any size: its sign and the bits of its magnitude
LongV(neg, bits) == [t |-> "long", neg |-> neg /\ Len(bits) > 0, bits |-> bits]

\* the value of a fixed-width number read under tag
NumberV(tag, n) == [t |-> "number", tag |-> tag, n |-> n]

\* tuple(nodes), list(nodes), set(nodes), frozenset(nodes)
CollectionV(type, items) == [t |-> type, items |-> items]

RECURSIVE HashableV(_)
\* hash(v) succeeds
HashableV(v) ==
    CASE v.t \in {"list", "set"} -> FALSE
      [] v.t \in {"tuple", "frozenset"} -> \A k \in 1..Len(v.items) : HashableV(v.items[k])
      [] OTHER -> TRUE

RECURSIVE Dedupe(_)
\* the elements of a set, each once
Dedupe(items) ==
    IF Len(items) = 0 THEN items
    ELSE LET front == Dedupe(SubSeq(items, 1, Len(items) - 1))
             x == items[Len(items)]
         IN IF \E k \in 1..Len(front) : front[k] = x THEN front ELSE Append(front, x)

RECURSIVE Return(_, _)
\* unmarshal_node returns v: to the unmarshal_collection call that asked for
\* it, which returns in turn once it has all its elements, or to disassemble
Return(frames, v) ==
    IF Len(frames) = 0 THEN [frames |-> frames, done |-> TRUE, exc |-> "none", value |-> v]
    ELSE LET f == frames[Len(frames)]
             items == Append(f.items, v)
             rest == SubSeq(frames, 1, Len(frames) - 1)
         IN IF Len(items) < f.count
            THEN [frames |-> Append(rest, [f EXCEPT !.items = items]), done |-> FALSE,
                  exc |-> "none", value |-> v]
            ELSE IF f.type \in {"set", "frozenset"}
                    /\ \E k \in 1..Len(items) : ~HashableV(items[k])
            THEN [frames |-> rest, done |-> FALSE, exc |-> "TypeError", value |-> v]
            ELSE Return(rest, CollectionV(f.type, IF f.type \in {"set", "frozenset"}
                                                   THEN Dedupe(items) ELSE items))

\* read_int16 of the bytes lo, hi: a signed 16-bit value
read_int16(lo, hi) ==
    IF lo + 256 * hi >= 32768 THEN lo + 256 * hi - 65536 ELSE lo + 256 * hi

\* i * 15 with a wider digit
DigitShift_16(k) == k * 16

\* the shift of the digit with index k: i * 15
DigitShift(k) == k * 15

RECURSIVE LongDigits(_, _, _)
\* the loop of _TYPE_LONG over the digits from the k-th on: n |= digit << (i * 15),
\* for digits that are not negative
LongDigits(n, digits, k) ==
    IF k > Len(digits) THEN n
    ELSE LongDigits(BitOr(n, ShiftLeft(NatToBits(read_int16(digits[k][1], digits[k][2])),
                                       DigitShift(k - 1))),
                    digits, k + 1)

\* _TYPE_LONG: nbits is the signed digit count read first, digits the pairs
\* of bytes after it
UnmarshalLongValue(nbits, digits) ==
    IF nbits = 0 THEN LongV(FALSE, <<>>)
    ELSE LET n == LongDigits(<<>>, digits, 1)
         IN IF nbits > 0 THEN LongV(FALSE, n) ELSE LongV(TRUE, n)

\* string_table[index] of Python: a negative index counts from the end
TableEntry(table, index) == table[IF index < 0 THEN Len(table) + index + 1 ELSE index + 1]

\* string_table[index] raises IndexError
NoEntry(table, index) == index < -Len(table) \/ index >= Len(table)

\* the index check without its lower bound
BadStringIndex_NoLowerBound(table, index) == index >= Len(table)

\* index < 0 or index >= len(self.string_table)
BadStringIndex(table, index) == index < 0 \/ index >= Len(table)

\* The encodings of _TYPE_LONG the input is drawn from: of an integer with
\* sign neg and magnitude bits, the signed count of its base-2^15 digits and
\* the digits, least significant first, each as the two bytes of an int16.
RECURSIVE LongBytes(_)
LongBytes(bits) ==
    IF Len(bits) = 0 THEN <<>>
    ELSE LET d == BitsToNat(SubSeq(bits, 1, Min(15, Len(bits))))
         IN <<<<d % 256, d \div 256>>>> \o LongBytes(SubSeq(bits, Min(15, Len(bits)) + 1, Len(bits)))

LongCount(n) ==
    LET count == (Len(n.bits) + 14) \div 15
    IN IF n.neg THEN -count ELSE count

Long(neg, bits) == [neg |-> neg, bits |-> bits]

\* 0, 1, -1, 2^15 - 1, 2^15, -2^15, 2^30 + 7, -(2^40 - 3), 2^45 - 1
LongInputs ==
    {Long(FALSE, <<>>), Long(FALSE, <<1>>), Long(TRUE, <<1>>),
     Long(FALSE, [j \in 1..15 |-> 1]),
     Long(FALSE, Zeros(15) \o <<1>>), Long(TRUE, Zeros(15) \o <<1>>),
     Long(FALSE, <<1, 1, 1>> \o Zeros(27) \o <<1>>),
     Long(TRUE, [j \in 1..40 |-> IF j = 2 THEN 0 ELSE 1]),
     Long(FALSE, [j \in 1..45 |-> 1])}

\* A file: the type tags its nodes are drawn from (a collection under the
\* name of its type), with the numbers, bignums, strings and element counts
\* that follow them.
File(tags, numbers, longs, strings, counts) ==
    [tags |-> tags, numbers |-> numbers, longs |-> longs, strings |-> strings,
     counts |-> counts]

\* interned strings and references to them
TableFile == File({"t", "R", "s", "tuple"}, {}, {}, {"a", "b"}, {2})

\* bignums
LongFile == File({"l", "list"}, {}, LongInputs, {}, {0, 2})

\* collections in collections
NestedFile == File({"tuple", "list", "set", "frozenset", "N", "i"}, {7}, {}, {}, {-1, 0, 2})

\* scalars, and what no branch decodes
PlainFile ==
    File({"N", "T", "F", "i", "I", "g", "y", "u", "tuple", "c", "0", "{", "f", "x", "S", ".", "?"},
         {-1, 7}, {}, {"a"}, {1})

Files == {TableFile, LongFile, NestedFile, PlainFile}

\* __init__ of _Disassembler
ModuleInit ==
    /\ pc = "start"
    /\ error = "none"
    /\ magic = NoneV
    /\ string_table = NoneV
    /\ pending = <<>>
    /\ node = NoneV
    /\ nodes = <<>>
    /\ last = NoStep
    /\ co = NoneV
    /\ co_code = <<>>
    /\ i = 0
    /\ argument = <<>>
    /\ opcodes = <<>>
    /\ stack = <<>>
    /\ result = <<>>
    /\ indent_count = 0
    /\ printed = <<>>
    /\ input \in Files

\* what the value deserializer leaves alone
LoopVars == <<co, co_code, i, argument, opcodes, stack, result, indent_count, printed, input>>

\* disassemble(file), up to its call of unmarshal_node
Disassemble ==
    /\ pc = "start"
    /\ \E m \in {62211, 0} :
          /\ magic' = m
          /\ IF python_version_from_magic(m) = ""
             THEN Fail("DisassemblerException")
             ELSE pc' = "node" /\ error' = error
    /\ string_table' = <<>>
    /\ last' = [kind |-> "header", chain |-> <<>>]
    /\ UNCHANGED <<pending, node, nodes>>
    /\ UNCHANGED LoopVars

\* an unmarshal_node call that read tag returns v, having left the string
\* table as table
Returned(tag, v, table, step) ==
    LET r == Return(pending, v)
    IN /\ pending' = r.frames
       /\ string_table' = table
       /\ nodes' = Append(nodes, [tag |-> tag, value |-> v])
       /\ last' = step
       /\ node' = r.value
       /\ IF r.exc # "none" THEN Fail(r.exc)
          ELSE IF r.done THEN pc' = "done" /\ error' = error
          ELSE UNCHANGED <<pc, error>>
       /\ UNCHANGED magic
       /\ UNCHANGED LoopVars

\* an unmarshal_node call may start
AtNode == pc = "node" /\ Len(nodes) < MaxNodes

\* _TYPE_NONE, _TYPE_TRUE, _TYPE_FALSE
UnmarshalSingleton ==
    /\ AtNode
    /\ \E tag \in input.tags \cap {"N", "T", "F"} :
          Returned(tag, [t |-> "singleton", tag |-> tag], string_table,
                   [kind |-> "singleton", chain |-> <<>>])

\* _TYPE_INT, _TYPE_INT64, _TYPE_BINARY_FLOAT, _TYPE_BINARY_COMPLEX
UnmarshalNumber ==
    /\ AtNode
    /\ \E tag \in input.tags \cap {"i", "I", "g", "y"}, n \in input.numbers :
          Returned(tag, NumberV(tag, n), string_table, [kind |-> "number", chain |-> <<>>])

\* _TYPE_LONG, for the digit count and the digits of an encoding
UnmarshalLong ==
    /\ AtNode
    /\ "l" \in input.tags
    /\ \E n \in input.longs :
          Returned("l", UnmarshalLongValue(LongCount(n), LongBytes(n.bits)), string_table,
                   [kind |-> "long", chain |-> <<>>, n |-> n])

\* _TYPE_STRING, _TYPE_UNICODE
UnmarshalString ==
    /\ AtNode
    /\ \E tag \in input.tags \cap {"s", "u"}, data \in input.strings :
          Returned(tag, StrV(data), string_table, [kind |-> "string", chain |-> <<>>])

\* _TYPE_INTERNED
UnmarshalInterned ==
    /\ AtNode
    /\ "t" \in input.tags
    /\ \E data \in input.strings :
          Returned("t", StrV(data), Append(string_table, StrV(data)),
                   [kind |-> "interned", chain |-> <<>>])

\* _TYPE_STRING_REF
UnmarshalStringRef ==
    /\ AtNode
    /\ "R" \in input.tags
    /\ \E index \in -2..MaxNodes :
          IF BadStringIndex(string_table, index) \/ NoEntry(string_table, index)
          THEN /\ IF BadStringIndex(string_table, index)
                  THEN Fail("DisassemblerException")
                  ELSE Fail("IndexError")
               /\ last' = [kind |-> "badref", chain |-> <<>>, index |-> index]
               /\ UNCHANGED <<magic, string_table, pending, node, nodes>>
               /\ UNCHANGED LoopVars
          ELSE Returned("R", TableEntry(string_table, index), string_table,
                        [kind |-> "ref", chain |-> <<>>, index |-> index])

\* _TYPE_TUPLE, _TYPE_LIST, _TYPE_SET, _TYPE_FROZEN_SET: unmarshal_collection
\* reads the count; range(count) is empty for a count below 1
UnmarshalCollection ==
    /\ AtNode
    /\ Len(pending) < MaxDepth
    /\ \E type \in input.tags \cap {"tuple", "list", "set", "frozenset"}, count \in input.counts :
          IF count <= 0
          THEN Returned(type, CollectionV(type, <<>>), string_table,
                        [kind |-> "collection", chain |-> <<>>])
          ELSE /\ pending' = Append(pending, [type |-> type, count |-> count, items |-> <<>>])
               /\ last' = [kind |-> "open", chain |-> <<>>]
               /\ UNCHANGED <<pc, error, magic, string_table, node, nodes>>
               /\ UNCHANGED LoopVars

\* a tag unmarshal_node has no branch for
UnmarshalUnknown ==
    /\ AtNode
    /\ \E tag \in input.tags \cap {"0", "{", "f", "x", "S", ".", "?"} :
          /\ Fail("DisassemblerException")
          /\ last' = [kind |-> "unknown", chain |-> <<>>, tag |-> tag]
    /\ UNCHANGED <<magic, string_table, pending, node, nodes>>
    /\ UNCHANGED LoopVars

\* _TYPE_CODE whose bytecode is not marshalled under _TYPE_STRING
UnmarshalCodeWrongTag ==
    /\ AtNode
    /\ "c" \in input.tags
    /\ \E tag \in {"t", "u", "N"} :
          /\ Fail("DisassemblerException")
          /\ last' = [kind |-> "wrongtag", chain |-> <<>>, tag |-> tag]
    /\ UNCHANGED <<magic, string_table, pending, node, nodes>>
    /\ UNCHANGED LoopVars

MarshalNext ==
    \/ Disassemble
    \/ UnmarshalSingleton
    \/ UnmarshalNumber
    \/ UnmarshalLong
    \/ UnmarshalString
    \/ UnmarshalInterned
    \/ UnmarshalStringRef
    \/ UnmarshalCollection
    \/ UnmarshalUnknown
    \/ UnmarshalCodeWrongTag

SpecMarshal == ModuleInit /\ [][MarshalNext]_vars

-----------------------------------------------------------------------------
(* What the claims speak of.                                               *)

\* the Skip marker: the value that asks for no assignment line
IsSkip(o) == o.cls = "_PyObject" /\ o.skip_it = 1

\* the last loop step recorded the instruction opcode and handed it to the engine
Handled(opcode) == last.kind = "instr" /\ last.opcode = opcode

\* the argument of the instruction recorded last
LastArg == opcodes[Len(opcodes)].argument

\* the handler before the last step, and the indent of a line it appends
Before == last.before
BeforeIndent == Times(Before.indent_count, INDENT)

\* the stack without its n topmost entries
Without(st, n) == SubSeq(st, 1, Len(st) - n)

(* C1: STORE_NAME pops exactly one operand and, for every operand that is  *)
(* not the Skip marker, appends exactly one line "<name> = <value>" at the *)
(* current indent.                                                         *)
C1_StoreNameAssigns ==
    (Handled("STORE_NAME") /\ Len(Before.stack) >= 1 /\ ~IsSkip(Top(Before)))
    => /\ error = "none"
       /\ stack = Without(Before.stack, 1)
       /\ result = Append(Before.result,
                          BeforeIndent \o LastArg.s \o " = " \o ObjStr(Top(Before)))

(* C2: whenever RETURN_VALUE is handled with a value on top of the operand *)
(* stack, the engine appends the line "return <text of that value>".       *)
C2_ReturnEmitsValue ==
    (Handled("RETURN_VALUE") /\ Len(Before.stack) >= 1)
    => result = Append(Before.result, BeforeIndent \o "return " \o ObjStr(Top(Before)))

\* the header line of a function with parameters names, the last values of
\* which have the operands defaults as their defaults
DefLine(name, names, defaults) ==
    LET plain == Len(names) - Len(defaults)
    IN "def " \o name \o "("
         \o Join([k \in 1..Len(names) |->
                    IF k <= plain THEN names[k]
                    ELSE names[k] \o "=" \o ObjStr(defaults[k - plain])], ", ")
         \o "):"

\* MAKE_FUNCTION was handled with argument d, 0 <= d <= argcount, on a stack
\* that held exactly d default values below a code object
MadeWithDefaults ==
    /\ Handled("MAKE_FUNCTION")
    /\ Len(Before.stack) >= 1
    /\ Top(Before).cls = "_PyObject"
    /\ Top(Before).val.t = "code"
    /\ BitsCapped(LastArg.bits) <= Top(Before).val.co_argcount
    /\ Len(Before.stack) = BitsCapped(LastArg.bits) + 1

(* C3: MAKE_FUNCTION with argument d, on a stack holding exactly the d     *)
(* default values below the code object, pops the code object and the d    *)
(* defaults without underflow and appends one line "def <name>(<params>):" *)
(* whose last d parameters are rendered name=default.                      *)
C3_DefHeader ==
    MadeWithDefaults
    => LET code == Top(Before).val
           d == BitsCapped(LastArg.bits)
       IN /\ error = "none"
          /\ Len(stack) = 1
          /\ result = Append(Before.result,
                             BeforeIndent
                               \o DefLine(code.co_name,
                                          SubSeq(code.co_varnames, 1, code.co_argcount),
                                          SubSeq(Before.stack, 1, d)))

(* C4: after a MAKE_FUNCTION that completes, the value on top of the stack *)
(* is a Skip marker, and a STORE_NAME that consumes that marker pops it    *)
(* and leaves the output list unchanged.                                   *)
C4_SkipSuppressesAssignment ==
    /\ (Handled("MAKE_FUNCTION") /\ error = "none")
       => Len(stack) >= 1 /\ IsSkip(stack[Len(stack)])
    /\ (Handled("STORE_NAME") /\ Len(Before.stack) >= 1 /\ IsSkip(Top(Before)))
       => /\ error = "none"
          /\ stack = Without(Before.stack, 1)
          /\ result = Before.result

\* a STORE_NAME has consumed the marker the MAKE_FUNCTION before it left
C4_Witness ==
    /\ Handled("STORE_NAME")
    /\ Len(opcodes) >= 2
    /\ opcodes[Len(opcodes) - 1].opcode = "MAKE_FUNCTION"
    /\ IsSkip(Top(Before))
    /\ Len(result) = 1

\* the 16-bit value the two argument bytes of the last instruction carry
L16 == last.lo + 256 * last.hi

\* the argument folded from the EXTENDED_ARG values before the last
\* instruction and its own 16 bits is at least n, for n <= 65536
FoldedAtLeast(n) == (\E k \in 1..Len(last.chain) : last.chain[k] # 0) \/ L16 >= n

\* the last step read an instruction whose argument indexes a table
ReadIndexed == last.kind \in {"instr", "bad"} /\ IndexedTable(co, last.opcode) # <<>>

(* C5: for every instruction whose argument indexes consts, names or       *)
(* varnames, a folded argument greater than or equal to the length of the  *)
(* table makes decoding fail with DisassemblerException before the         *)
(* instruction is appended or handed to the engine; an argument below the  *)
(* length selects that very entry of the table.                            *)
C5_IndexBounds ==
    ReadIndexed
    => LET table == IndexedTable(co, last.opcode)[1]
       IN IF FoldedAtLeast(Len(table))
          THEN /\ pc = "failed"
               /\ error = "DisassemblerException"
               /\ Len(opcodes) = last.recorded
               /\ stack = Before.stack
               /\ result = Before.result
               /\ indent_count = Before.indent_count
          ELSE /\ Len(opcodes) = last.recorded + 1
               /\ LastArg = table[L16 + 1]

\* an argument equal to the length of its table, and one that is in range
\* only in its low 16 bits, have been refused
C5_Witness ==
    /\ ReadIndexed
    /\ pc = "failed"
    /\ \/ L16 = Len(IndexedTable(co, last.opcode)[1]) /\ last.chain = <<>>
       \/ L16 = 0 /\ last.chain = <<1>>

\* the bits of H * 65536 + L for 16-bit H and L
FoldedBits(H, L) ==
    IF H < 32768 THEN NatToBits(H * 65536 + L)
    ELSE Trim(NatToBits(L) \o Zeros(16 - Len(NatToBits(L))) \o NatToBits(H))

\* the raw argument of the instruction recorded last is H * 65536 + L
RawArgumentIs(H, L) ==
    IF IndexedTable(co, last.opcode) = <<>>
    THEN LastArg = RawV(FoldedBits(H, L))
    ELSE H = 0 /\ LastArg = IndexedTable(co, last.opcode)[1][L + 1]

\* an instruction with an argument was recorded after n or more EXTENDED_ARG
FoldedOver(n) ==
    last.kind = "instr" /\ has_argument(last.opcode) /\ Len(last.chain) >= n

InternedStrings == SelectSeq(nodes, LAMBDA e : e.tag = "t")

\* the last step read a string reference
ReadRef == last.kind \in {"ref", "badref"}

(* C7: within one call of disassemble, a string reference with index i     *)
(* succeeds only if 0 <= i < the number of interned strings decoded so far *)
(* in the call, and then returns the string the (i+1)-th interned decode   *)
(* appended; any other index fails the call with an error.                 *)
C7_StringRef ==
    ReadRef
    => IF 0 <= last.index /\ last.index < Len(InternedStrings)
       THEN /\ last.kind = "ref"
            /\ nodes[Len(nodes)].tag = "R"
            /\ nodes[Len(nodes)].value = InternedStrings[last.index + 1].value
       ELSE last.kind = "badref" /\ pc = "failed" /\ error # "none"

\* the second of two different interned strings has been referred to
C7_Witness ==
    /\ last.kind = "ref"
    /\ last.index = 1
    /\ Len(InternedStrings) = 2
    /\ InternedStrings[1].value # InternedStrings[2].value
    /\ nodes[Len(nodes)].value = InternedStrings[2].value

(* C8: decoding the bignum encoding of n (the signed digit count with the  *)
(* sign of n, then the base-2^15 digits of |n|, least significant first)   *)
(* returns n, for 0, 1, -1, 2^15, 2^30 + 7, -(2^40 - 3) and the other      *)
(* integers of LongInputs.                                                 *)
C8_LongRoundTrip ==
    last.kind = "long"
    => /\ nodes[Len(nodes)].tag = "l"
       /\ nodes[Len(nodes)].value = LongV(last.n.neg, last.n.bits)

\* -(2^40 - 3), of three digits, has been decoded
C8_Witness ==
    /\ last.kind = "long"
    /\ last.n.neg
    /\ Len(last.n.bits) = 40
    /\ LongCount(last.n) = -3
    /\ nodes[Len(nodes)].value.neg
    /\ Len(nodes[Len(nodes)].value.bits) = 40

(* C9: every failure of a call of disassemble on malformed input (unknown  *)
(* magic, unknown tag, bad string reference, wrong bytecode tag, unknown   *)
(* opcode, operand index out of range, an instruction with an argument     *)
(* and fewer than two bytes left, operand-stack underflow) is a            *)
(* DisassemblerException; no other kind of error escapes the call.         *)
C9_OnlyDisassemblerException ==
    pc = "failed" => error = "DisassemblerException"

\* the operands an instruction takes from the stack
Needs(opcode) ==
    CASE opcode = "POP_TOP" -> 1
      [] opcode = "ROT_TWO" -> 2
      [] opcode = "ROT_THREE" -> 3
      [] opcode = "ROT_FOUR" -> 4
      [] opcode \in math_operations -> 2
      [] opcode = "BINARY_SUBSCR" -> 2
      [] opcode = "STORE_NAME" -> 1
      [] OTHER -> 0

(* C10: whenever a handled instruction needs k operands and the stack      *)
(* holds fewer than k (POP_TOP on an empty stack, ROT_TWO, ROT_THREE and   *)
(* ROT_FOUR on fewer than 2, 3 and 4 entries among them), the call aborts  *)
(* with an error; the engine never continues past such an instruction.     *)
C10_UnderflowAborts ==
    (last.kind = "instr" /\ Len(Before.stack) < Needs(last.opcode))
    => pc = "failed" /\ error # "none"

\* the statement lines written to standard output
PrintedLines == SelectSeq(printed, LAMBDA e : e.kind = "line")

(* C11: if a call fails with an error at any point, no reconstructed       *)
(* statement line has been output by that call: the lines of a nested code *)
(* object that was decoded completely are not written before a later error *)
(* in an enclosing code object.                                            *)
C11_NoLinesOnFailure ==
    pc = "failed" => PrintedLines = <<>>

\* the type tags of the value encodings the format has: null, none, false,
\* true, int32, int64, float64, complex128, bignum, the four kinds of
\* string, tuple, list, set, frozenset, mapping and code object
RecognizedTags ==
    {"0", "N", "F", "T", "i", "I", "g", "y", "l", "s", "u", "t", "R",
     "tuple", "list", "set", "frozenset", "{", "c"}

(* C12: a type tag is rejected as an unknown value encoding if and only if *)
(* it is not one of the recognized tags; in particular the null tag and    *)
(* the mapping tag are decoded, not rejected.                              *)
C12_RejectsOnlyUnrecognized ==
    /\ last.kind = "unknown" => last.tag \notin RecognizedTags
    /\ \A k \in 1..Len(nodes) : nodes[k].tag \in RecognizedTags

\* the last step handled a call instruction
HandledCall == last.kind = "instr" /\ last.opcode \in function_call

\* the counts in the argument word of the call handled last, the expansion
\* operands of its variant, and the entries it is to pop
CallPos == LowByte(LastArg.bits)
CallKw == SecondByte(LastArg.bits)
CallStar == IF last.opcode \in {"CALL_FUNCTION_VAR", "CALL_FUNCTION_VAR_KW"} THEN 1 ELSE 0
CallDoubleStar == IF last.opcode \in {"CALL_FUNCTION_KW", "CALL_FUNCTION_VAR_KW"} THEN 1 ELSE 0
CallPops == CallPos + 2 * CallKw + 1 + CallStar + CallDoubleStar

\* the operands of the call on the stack before it, by the order of their
\* push: callee, positional operands, (key, value) pairs, *-operand, **-operand
CallBase == Len(Before.stack) - CallPops
Callee == Before.stack[CallBase + 1]
CallPositional(j) == Before.stack[CallBase + 1 + j]
CallKey(j) == Before.stack[CallBase + CallPos + 2 * j]
CallValue(j) == Before.stack[CallBase + CallPos + 2 * j + 1]
CallStarOperand == Before.stack[CallBase + CallPos + 2 * CallKw + 2]
CallDoubleStarOperand == Before.stack[Len(Before.stack)]

\* the keys of the call are names: string constants
CallKeysAreNames ==
    \A j \in 1..CallKw : CallKey(j).cls = "_PyObject" /\ CallKey(j).val.t = "str"

\* the orders of n keyword arguments
Orders(n) == {f \in [1..n -> 1..n] : \A a, b \in 1..n : f[a] = f[b] => a = b}

\* the text of the call with its keyword arguments in order f
CallText(f) ==
    ObjRepr(Callee) \o "("
      \o Join([j \in 1..CallPos |-> ObjRepr(CallPositional(j))]
                \o (IF CallStar = 1 THEN <<"*" \o ObjRepr(CallStarOperand)>> ELSE <<>>)
                \o [j \in 1..CallKw |->
                      CallKey(f[j]).val.s \o "=" \o ObjStr(CallValue(f[j]))]
                \o (IF CallDoubleStar = 1
                    THEN <<"**" \o ObjRepr(CallDoubleStarOperand)>> ELSE <<>>),
              ", ")
      \o ")"

(* C13: a call instruction whose argument word is pos + 256 * kw pops the  *)
(* **-operand, the *-operand, kw pairs of value and key, pos positional    *)
(* operands and the callee, pos + 2 * kw + 1 entries and the expansion     *)
(* operands, and pushes one call whose text is the callee with, in         *)
(* parentheses and joined by ", ", the positional arguments in the order   *)
(* of their push, *expr, the name=value keyword arguments and **expr.      *)
C13_CallText ==
    (HandledCall /\ Len(Before.stack) >= CallPops /\ CallKeysAreNames)
    => /\ error = "none"
       /\ Len(stack) = CallBase + 1
       /\ SubSeq(stack, 1, CallBase) = SubSeq(Before.stack, 1, CallBase)
       /\ stack[Len(stack)].cls = "_FuncCall"
       /\ \E f \in Orders(CallKw) : stack[Len(stack)].val = CallText(f)

\* the set of the pairs of a dict
PairsOf(d) == {d.items[k] : k \in 1..Len(d.items)}

\* STORE_MAP was handled on a dict below two operands that can be hashed
StoredInMap ==
    /\ Handled("STORE_MAP")
    /\ Len(Before.stack) >= 3
    /\ Before.stack[Len(Before.stack) - 2].cls = "dict"
    /\ Hashable(Before.stack[Len(Before.stack)])
    /\ Hashable(Before.stack[Len(Before.stack) - 1])

\* the dict STORE_MAP found, and its two operands by the order of their pop
MapBefore == Before.stack[Len(Before.stack) - 2]
FirstPopped == Before.stack[Len(Before.stack)]
SecondPopped == Before.stack[Len(Before.stack) - 1]

\* STORE_MAP has popped two entries and left, on top of the others, the dict
\* with key -> value added, a value key of it replaced
MapHolds(key, value) ==
    /\ error = "none"
    /\ Len(stack) = Len(Before.stack) - 2
    /\ SubSeq(stack, 1, Len(stack) - 1) = SubSeq(Before.stack, 1, Len(stack) - 1)
    /\ stack[Len(stack)].cls = "dict"
    /\ Len(stack[Len(stack)].items)
         = Len(MapBefore.items)
             + (IF ValueKeyed(key) /\ \E q \in PairsOf(MapBefore) : q[1] = key THEN 0 ELSE 1)
    /\ PairsOf(stack[Len(stack)])
         = {q \in PairsOf(MapBefore) : ~(ValueKeyed(key) /\ q[1] = key)} \cup {<<key, value>>}

HandledUnary == last.kind = "instr" /\ last.opcode \in unary_operations

\* an integer or string literal, a name, a binary operation or a call result
IsOperand(o) ==
    \/ o.cls = "_PyObject" /\ o.skip_it = 0 /\ o.val.t \in {"int", "str"}
    \/ o.cls \in {"_MathOperation", "_FuncCall"}

(* C15: for every kind of operand on top of the stack (integer or string   *)
(* literal, name, binary operation, call result), UNARY_NEGATIVE,          *)
(* UNARY_NOT and UNARY_INVERT complete without error, leave the stack      *)
(* depth unchanged and make the top entry render as the prefix "-", "not " *)
(* or "~" followed by the text the operand had.                            *)
C15_UnaryPrefixes ==
    (HandledUnary /\ Len(Before.stack) >= 1 /\ IsOperand(Top(Before)))
    => /\ error = "none"
       /\ Len(stack) = Len(Before.stack)
       /\ Without(stack, 1) = Without(Before.stack, 1)
       /\ ObjStr(stack[Len(stack)]) = UnaryPrefix(last.opcode) \o ObjStr(Top(Before))

\* the entries a rotation moves
Rotated(opcode) ==
    CASE opcode = "ROT_TWO" -> 2
      [] opcode = "ROT_THREE" -> 3
      [] opcode = "ROT_FOUR" -> 4

\* the last step handled a rotation of entries the stack had
HandledRotation ==
    /\ last.kind = "instr"
    /\ last.opcode \in {"ROT_TWO", "ROT_THREE", "ROT_FOUR"}
    /\ Len(Before.stack) >= Rotated(last.opcode)

(* C16: on a stack of at least N entries, ROT_TWO, ROT_THREE and ROT_FOUR  *)
(* (N = 2, 3, 4) move the former top entry down to the N-th position from  *)
(* the top and lift the N - 1 entries above that position by one, leaving  *)
(* the depth and the entries below the top N as they were.                 *)
C16_RotationMovesTop ==
    HandledRotation
    => LET n == Rotated(last.opcode)
           len == Len(Before.stack)
       IN /\ error = "none"
          /\ stack = SubSeq(Before.stack, 1, len - n)
                       \o <<Before.stack[len]>>
                       \o SubSeq(Before.stack, len - n + 1, len - 1)

\* the operands each slice or subscript statement is to pop
StatementPops(opcode) ==
    CASE opcode = "STORE_SLICE_0" -> 2
      [] opcode = "STORE_SLICE_1" -> 3
      [] opcode = "STORE_SLICE_2" -> 3
      [] opcode = "STORE_SLICE_3" -> 4
      [] opcode = "DELETE_SLICE_0" -> 1
      [] opcode = "DELETE_SLICE_1" -> 2
      [] opcode = "DELETE_SLICE_2" -> 2
      [] opcode = "DELETE_SLICE_3" -> 3
      [] opcode = "STORE_SUBSCR" -> 3
      [] opcode = "DELETE_SUBSCR" -> 2

\* the last step handled a slice or subscript statement with its operands
\* on the stack
HandledStatement ==
    /\ last.kind = "instr"
    /\ last.opcode \in slice_statemant
    /\ Len(Before.stack) >= StatementPops(last.opcode)

(* C17: each of the ten slice and subscript statement instructions,        *)
(* handled with enough operands on the stack, pops its fixed number of     *)
(* operands (STORE_SLICE_0..3: 2, 3, 3, 4; DELETE_SLICE_0..3: 1, 2, 2, 3;  *)
(* STORE_SUBSCR: 3; DELETE_SUBSCR: 2), pushes nothing and appends exactly  *)
(* one statement line; none of them fails.                                 *)
C17_StatementsPopAndEmit ==
    HandledStatement
    => /\ error = "none"
       /\ stack = Without(Before.stack, StatementPops(last.opcode))
       /\ Len(result) = Len(Before.result) + 1
       /\ Without(result, 1) = Before.result

\* the k-th entry from the top of the stack before the last step
FromTop(k) == Before.stack[Len(Before.stack) + 1 - k]

\* base[bound:] and base[:bound]
LowerSlice(base, bound) == ObjStr(base) \o "[" \o ObjStr(bound) \o ":]"
UpperSlice(base, bound) == ObjStr(base) \o "[:" \o ObjStr(bound) \o "]"

\* the last step handled opcode on a stack of at least n entries
HandledOn(opcode, n) == Handled(opcode) /\ Len(Before.stack) >= n

\* the line appended last
LastLine == result[Len(result)]

(* C18: the slice variants with only a lower or only an upper bound render *)
(* the bound on its side of the colon in every form: SLICE_1,              *)
(* STORE_SLICE_1 and DELETE_SLICE_1 render base[bound:], SLICE_2,          *)
(* STORE_SLICE_2 and DELETE_SLICE_2 render base[:bound], so that no two    *)
(* variants of one statement kind give the same text for the same          *)
(* operands.                                                               *)
C18_BoundOnItsSide ==
    /\ HandledOn("SLICE_1", 2)
       => ObjStr(stack[Len(stack)]) = LowerSlice(FromTop(2), FromTop(1))
    /\ HandledOn("SLICE_2", 2)
       => ObjStr(stack[Len(stack)]) = UpperSlice(FromTop(2), FromTop(1))
    /\ HandledOn("STORE_SLICE_1", 3)
       => LastLine = BeforeIndent \o LowerSlice(FromTop(2), FromTop(1))
                       \o " = " \o ObjStr(FromTop(3))
    /\ HandledOn("STORE_SLICE_2", 3)
       => LastLine = BeforeIndent \o UpperSlice(FromTop(2), FromTop(1))
                       \o " = " \o ObjStr(FromTop(3))
    /\ HandledOn("DELETE_SLICE_1", 2)
       => LastLine = BeforeIndent \o "del " \o LowerSlice(FromTop(2), FromTop(1))
    /\ HandledOn("DELETE_SLICE_2", 2)
       => LastLine = BeforeIndent \o "del " \o UpperSlice(FromTop(2), FromTop(1))

\* the operands each print statement is to pop
PrintPops(opcode) ==
    CASE opcode = "PRINT_ITEM_TO" -> 2
      [] opcode = "PRINT_NEWLINE_TO" -> 1
      [] opcode = "PRINT_ITEM" -> 1
      [] opcode = "PRINT_NEWLINE" -> 0

\* the last step handled a print statement with its operands on the stack
HandledPrint ==
    /\ last.kind = "instr"
    /\ last.opcode \in print_statements
    /\ Len(Before.stack) >= PrintPops(last.opcode)

(* C19: PRINT_ITEM_TO pops two operands, the destination stream on top and *)
(* the value below it, and appends one line "print >> stream, value" that  *)
(* names the two of them; PRINT_ITEM and PRINT_NEWLINE_TO pop exactly one  *)
(* operand and PRINT_NEWLINE pops none; each appends exactly one line.     *)
C19_PrintPopsAndNames ==
    HandledPrint
    => /\ error = "none"
       /\ stack = Without(Before.stack, PrintPops(last.opcode))
       /\ Len(result) = Len(Before.result) + 1
       /\ Without(result, 1) = Before.result
       /\ last.opcode = "PRINT_ITEM_TO"
          => LastLine = BeforeIndent \o "print >> " \o ObjStr(FromTop(1))
                          \o ", " \o ObjStr(FromTop(2))

\* what handle() was called with, call by call
EngineSteps == SelectSeq(printed, LAMBDA e : e.kind = "trace")

RECURSIVE InstructionOffsets(_, _)
\* the offsets, from offset k on, at which the bytes of code hold an
\* instruction other than EXTENDED_ARG: a byte of HAVE_ARGUMENT or more
\* takes two argument bytes with it
InstructionOffsets(code, k) ==
    IF k >= Len(code) THEN <<>>
    ELSE LET b == code[k + 1]
             size == IF b >= HAVE_ARGUMENT THEN 3 ELSE 1
             rest == InstructionOffsets(code, k + size)
         IN IF b = OpByte("EXTENDED_ARG") THEN rest ELSE <<k>> \o rest

\* the offsets of the recorded instructions
RecordedOffsets == [k \in 1..Len(opcodes) |-> opcodes[k].offset]

(* C20: while one code object is decoded, every instruction other than     *)
(* EXTENDED_ARG is recorded in the instruction list and handed to the      *)
(* engine exactly once, in the order of the byte offsets, as soon as its   *)
(* argument is resolved: after each step of the loop the recorded          *)
(* instructions are the instructions of the bytes read so far, as many as  *)
(* the engine steps and the same ones; no EXTENDED_ARG is recorded or      *)
(* handed over, and every recorded instruction has size 1 or 3.            *)
C20_RecordedOnceInOrder ==
    /\ Len(opcodes) = Len(EngineSteps)
    /\ \A k \in 1..Len(opcodes) :
          /\ EngineSteps[k].opcode = opcodes[k].opcode
          /\ EngineSteps[k].arg = opcodes[k].argument
          /\ opcodes[k].opcode # "EXTENDED_ARG"
          /\ opcodes[k].size \in {1, 3}
          /\ co_code[opcodes[k].offset + 1] = OpByte(opcodes[k].opcode)
    /\ \A k \in 1..(Len(opcodes) - 1) : opcodes[k].offset < opcodes[k + 1].offset
    /\ error = "none" => RecordedOffsets = InstructionOffsets(co_code, 0)
    /\ error # "none"
       => \E n \in {Len(opcodes), Len(opcodes) + 1} :
             /\ n <= Len(InstructionOffsets(co_code, 0))
             /\ RecordedOffsets = SubSeq(InstructionOffsets(co_code, 0), 1, n)

\* an EXTENDED_ARG was passed over, the instruction after it recorded first
\* and another one after it
C20_Witness ==
    /\ error = "none"
    /\ Len(co_code) >= 9
    /\ co_code[1] = OpByte("EXTENDED_ARG")
    /\ Len(opcodes) = 2
    /\ opcodes[1].offset = 3
    /\ opcodes[2].offset = 6

\* the nested code object has been returned to the enclosing one
NestedDone == pending = <<>>

\* the nested code object, as it was returned
Nested == nodes[1]

\* what the decoding of the nested code object wrote: the trace of each of
\* its engine steps and then its lines
NestedOutput == SubSeq(printed, 1, Nested.recorded + Len(Nested.lines))

\* what was written since the nested code object returned
EnclosingOutput == SubSeq(printed, Len(NestedOutput) + 1, Len(printed))

(* C21: a code object nested in the consts of another is decoded and       *)
(* reconstructed completely (its instructions recorded, its engine done,   *)
(* its lines written) before the first instruction of the enclosing code   *)
(* object is decoded, and with an engine of its own: as long as it is      *)
(* being decoded nothing of the enclosing one exists, and the enclosing    *)
(* loop starts at offset 0 with an empty stack, no lines and indent 0,     *)
(* whatever the nested engine was left with, and goes on from there by its *)
(* own instructions alone.                                                 *)
C21_NestedDoneFirstOwnEngine ==
    /\ ~NestedDone => nodes = <<>>
    /\ NestedDone
       => /\ Len(nodes) = 1
          /\ Nested.tag = "c"
          /\ Len(printed) >= Len(NestedOutput)
          /\ \A k \in 1..Nested.recorded : printed[k].kind = "trace"
          /\ \A k \in 1..Len(Nested.lines) :
                printed[Nested.recorded + k] = Line(Nested.lines[k])
          /\ Len(SelectSeq(EnclosingOutput, LAMBDA e : e.kind = "trace")) = Len(opcodes)
          /\ opcodes # <<>> => /\ EnclosingOutput[1].kind = "trace"
                               /\ EnclosingOutput[1].stack = <<>>
                               /\ opcodes[1].offset = 0
          /\ Len(result) <= Len(opcodes)
          /\ Len(stack) <= Len(opcodes)
          /\ pc = "done" => SelectSeq(EnclosingOutput, LAMBDA e : e.kind = "line")
                              = [k \in 1..Len(result) |-> Line(result[k])]
    /\ last.kind = "nested"
       => /\ NestedDone
          /\ i = 0
          /\ opcodes = <<>>
          /\ argument = <<>>
          /\ Handler = NewHandler

\* the enclosing code object has handled an instruction after a nested one
\* whose engine was left with an entry on its stack
C21_Witness ==
    /\ NestedDone
    /\ error = "none"
    /\ Len(nodes) = 1
    /\ Nested.depth >= 1
    /\ Nested.recorded >= 2
    /\ Len(opcodes) >= 1

\* the last step recorded an instruction that has an argument
DecodedWithArgument == last.kind = "instr" /\ has_argument(last.opcode)

\* the raw argument of the instruction recorded last is below 2^32: one that
\* indexed a table was below the length of the table, any other is held bit
\* by bit, the highest bit set last
RawArgumentIn32Bits ==
    IndexedTable(co, last.opcode) = <<>> => Len(LastArg.bits) <= 32

(* C22: the raw argument of every decoded instruction is in 0 .. 2^32 - 1, *)
(* for every byte sequence, two or more EXTENDED_ARG in a row included,    *)
(* and the argument of an instruction that no EXTENDED_ARG precedes is the *)
(* value of its own two argument bytes.                                    *)
C22_ArgumentIn32Bits ==
    DecodedWithArgument
    => /\ RawArgumentIn32Bits
       /\ Len(last.chain) = 0 => RawArgumentIs(0, L16)

(* C23: in every reachable state of a reconstruction engine the indent     *)
(* counter is at least 0, after any sequence of handled instructions, any  *)
(* number of RETURN_VALUE among them, so that the prefix of every line is  *)
(* indent_count copies of the indent unit.                                 *)
C23_IndentNeverNegative ==
    indent_count >= 0

\* a step after which the loop goes on moves the read position by 1 or 3
PositionAdvances == pc' = "loop" => i' - i \in {1, 3}

\* the recorded instructions lie within the code, one after the other
RecordedWithinCode ==
    /\ \A k \in 1..Len(opcodes) : opcodes[k].offset + opcodes[k].size <= co.len
    /\ \A k \in 1..(Len(opcodes) - 1) :
          opcodes[k].offset + opcodes[k].size <= opcodes[k + 1].offset

\* the loop has ended without an error: the whole code was read and every
\* instruction of it other than EXTENDED_ARG is recorded
AllRecorded ==
    pc = "done" => /\ i = co.len
                   /\ Len(co_code) = co.len
                   /\ RecordedOffsets = InstructionOffsets(co_code, 0)

(* C24: the loop that decodes the instructions of a code object ends for   *)
(* every finite sequence of code bytes, with all instructions recorded or  *)
(* with an error: every step after which the loop goes on, EXTENDED_ARG    *)
(* steps included, moves the read position forward by 1 or 3, the offsets  *)
(* recorded increase strictly, and offset + size of every recorded         *)
(* instruction is at most the length of the code.                          *)
C24_LoopTerminates ==
    /\ [](RecordedWithinCode /\ AllRecorded /\ i <= co.len)
    /\ [][PositionAdvances]_vars
    /\ <>(pc \in {"done", "failed"})

\* a loop that ended without an error after an EXTENDED_ARG and instructions
\* of both sizes
C24_Witness ==
    /\ pc = "done"
    /\ \E k \in 1..Len(co_code) : co_code[k] = OpByte("EXTENDED_ARG")
    /\ Len(opcodes) >= 3
    /\ \E k \in 1..Len(opcodes) : opcodes[k].size = 1
    /\ \E k \in 1..Len(opcodes) : opcodes[k].size = 3

====
